---- MODULE Spec2Model ----
(***************************************************************************)
(* FastKit configuration pipeline.                                         *)
(*                                                                         *)
(* The model follows src/config/FastKit-Config/config.validation.ts        *)
(* (the Zod schemas, validateEnvData, validateConfig, parseCorsOrigin),    *)
(* src/constant/env.constant.ts (the typed EnvConstants built from the     *)
(* process environment) and FastKit.config.ts (FastKitConfig.validateEnv). *)
(*                                                                         *)
(* JavaScript strings are sequences of one-character strings, so that      *)
(* parseInt, length checks, split and trim are computed character by       *)
(* character.  A JavaScript value is a record tagged with its type.        *)
(* Object keys, Zod issue paths and Zod messages are plain TLA+ strings.   *)
(***************************************************************************)
EXTENDS Integers, Sequences, FiniteSets, TLC

\* ------------------------------------------------------------------------
\* JavaScript values
\* ------------------------------------------------------------------------

Undef == [t |-> "undefined"]

NaN == [t |-> "nan"]

Str(s) == [t |-> "string", v |-> s]

Num(n) == [t |-> "number", v |-> n]

Bool(b) == [t |-> "boolean", v |-> b]

Arr(a) == [t |-> "array", v |-> a]

Obj(o) == [t |-> "object", v |-> o]

\* obj[key] of a JavaScript object: undefined when the key is not there
Get(m, k) == IF k \in DOMAIN m THEN m[k] ELSE Undef

\* x === 'literal'
StrEq(x, s) == x.t = "string" /\ x.v = s

\* JavaScript truthiness (ToBoolean)
Truthy(x) ==
  CASE x.t = "undefined" -> FALSE
    [] x.t = "nan" -> FALSE
    [] x.t = "string" -> x.v # <<>>
    [] x.t = "number" -> x.v # 0
    [] x.t = "boolean" -> x.v
    [] OTHER -> TRUE

\* ------------------------------------------------------------------------
\* String literals of the source
\* ------------------------------------------------------------------------

S_true == <<"t", "r", "u", "e">>
S_false == <<"f", "a", "l", "s", "e">>
S_3000 == <<"3", "0", "0", "0">>
S_30000 == <<"3", "0", "0", "0", "0">>
S_localhost == <<"l", "o", "c", "a", "l", "h", "o", "s", "t">>
S_24h == <<"2", "4", "h">>
S_100mb == <<"1", "0", "0", "m", "b">>
S_development == <<"d", "e", "v", "e", "l", "o", "p", "m", "e", "n", "t">>
S_production == <<"p", "r", "o", "d", "u", "c", "t", "i", "o", "n">>
S_test == <<"t", "e", "s", "t">>
S_staging == <<"s", "t", "a", "g", "i", "n", "g">>
S_mongodb == <<"m", "o", "n", "g", "o", "d", "b">>
S_mysql == <<"m", "y", "s", "q", "l">>
S_postgresql == <<"p", "o", "s", "t", "g", "r", "e", "s", "q", "l">>
S_sqlite == <<"s", "q", "l", "i", "t", "e">>
S_redis == <<"r", "e", "d", "i", "s">>
S_HS256 == <<"H", "S", "2", "5", "6">>
S_HS384 == <<"H", "S", "3", "8", "4">>
S_HS512 == <<"H", "S", "5", "1", "2">>
S_RS256 == <<"R", "S", "2", "5", "6">>
S_RS384 == <<"R", "S", "3", "8", "4">>
S_RS512 == <<"R", "S", "5", "1", "2">>
S_ES256 == <<"E", "S", "2", "5", "6">>
S_ES384 == <<"E", "S", "3", "8", "4">>
S_ES512 == <<"E", "S", "5", "1", "2">>
S_gmail == <<"g", "m", "a", "i", "l">>
S_yahoo == <<"y", "a", "h", "o", "o">>
S_outlook == <<"o", "u", "t", "l", "o", "o", "k">>
S_sendgrid == <<"s", "e", "n", "d", "g", "r", "i", "d">>
S_mailgun == <<"m", "a", "i", "l", "g", "u", "n">>
S_ses == <<"s", "e", "s">>
S_custom == <<"c", "u", "s", "t", "o", "m">>
S_GET == <<"G", "E", "T">>
S_POST == <<"P", "O", "S", "T">>
S_PUT == <<"P", "U", "T">>
S_DELETE == <<"D", "E", "L", "E", "T", "E">>
S_PATCH == <<"P", "A", "T", "C", "H">>
S_OPTIONS == <<"O", "P", "T", "I", "O", "N", "S">>
S_HEAD == <<"H", "E", "A", "D">>
S_defaultDatabaseUrl == <<"m", "o", "n", "g", "o", "d", "b", ":", "/", "/", "l", "o", "c", "a", "l", "h", "o", "s", "t", ":", "2", "7", "0", "1", "7", "/", "f", "a", "s", "t", "k", "i", "t">>
S_defaultJwtSecret == <<"y", "o", "u", "r", "-", "s", "u", "p", "e", "r", "-", "s", "e", "c", "r", "e", "t", "-", "j", "w", "t", "-", "k", "e", "y", "-", "c", "h", "a", "n", "g", "e", "-", "t", "h", "i", "s", "-", "i", "n", "-", "p", "r", "o", "d", "u", "c", "t", "i", "o", "n">>
S_CUSTOM_ == <<"C", "U", "S", "T", "O", "M", "_">>
S_APP_ == <<"A", "P", "P", "_">>

\* ------------------------------------------------------------------------
\* String primitives
\* ------------------------------------------------------------------------

IsWhiteSpace(c) == c \in {" ", "\t", "\n", "\r"}

RECURSIVE TrimStart(_)
TrimStart(s) == IF s # <<>> /\ IsWhiteSpace(Head(s)) THEN TrimStart(Tail(s)) ELSE s

RECURSIVE TrimEnd(_)
TrimEnd(s) ==
  IF s # <<>> /\ IsWhiteSpace(s[Len(s)]) THEN TrimEnd(SubSeq(s, 1, Len(s) - 1)) ELSE s

\* String.prototype.trim
Trim(s) == TrimEnd(TrimStart(s))

\* String.prototype.startsWith
StartsWith(s, p) == Len(s) >= Len(p) /\ SubSeq(s, 1, Len(p)) = p

\* String.prototype.includes for a one-character needle
Includes(s, c) == \E i \in 1..Len(s) : s[i] = c

\* String.prototype.split for a one-character separator: always at least
\* one piece, empty pieces kept
RECURSIVE SplitFrom(_, _, _)
SplitFrom(s, c, cur) ==
  IF s = <<>> THEN <<cur>>
  ELSE IF Head(s) = c THEN <<cur>> \o SplitFrom(Tail(s), c, <<>>)
  ELSE SplitFrom(Tail(s), c, Append(cur, Head(s)))

Split(s, c) == SplitFrom(s, c, <<>>)

\* value of a character as a digit; NoDigit when it is not an alphanumeric
NoDigit == 99

DigitValue(c) ==
  CASE c = "0" -> 0 [] c = "1" -> 1 [] c = "2" -> 2 [] c = "3" -> 3 [] c = "4" -> 4
    [] c = "5" -> 5 [] c = "6" -> 6 [] c = "7" -> 7 [] c = "8" -> 8 [] c = "9" -> 9
    [] c \in {"a", "A"} -> 10 [] c \in {"b", "B"} -> 11 [] c \in {"c", "C"} -> 12
    [] c \in {"d", "D"} -> 13 [] c \in {"e", "E"} -> 14 [] c \in {"f", "F"} -> 15
    [] OTHER -> NoDigit

\* the longest prefix of s made of radix-R digits
RECURSIVE DigitPrefix(_, _)
DigitPrefix(s, R) ==
  IF s # <<>> /\ DigitValue(Head(s)) < R THEN <<Head(s)>> \o DigitPrefix(Tail(s), R)
  ELSE <<>>

RECURSIVE RadixValue(_, _, _)
RadixValue(z, R, acc) ==
  IF z = <<>> THEN acc ELSE RadixValue(Tail(z), R, acc * R + DigitValue(Head(z)))

\* parseInt(string, radix) of ECMAScript; radix 0 stands for an omitted
\* radix.  Leading white space is skipped, a sign is read, a 0x/0X prefix
\* selects radix 16 when the radix is omitted or 16, and the digits are read
\* up to the first character that is not one: the rest is ignored.
parseInt(s, radix) ==
  LET S0 == TrimStart(s)
      neg == S0 # <<>> /\ Head(S0) = "-"
      S1 == IF S0 # <<>> /\ Head(S0) \in {"-", "+"} THEN Tail(S0) ELSE S0
      hex == radix \in {0, 16} /\ Len(S1) >= 2 /\ S1[1] = "0" /\ S1[2] \in {"x", "X"}
      R == IF hex THEN 16 ELSE IF radix = 0 THEN 10 ELSE radix
      S2 == IF hex THEN SubSeq(S1, 3, Len(S1)) ELSE S1
      Z == DigitPrefix(S2, R)
  IN IF Z = <<>> THEN NaN
     ELSE Num((IF neg THEN -1 ELSE 1) * RadixValue(Z, R, 0))

\* ------------------------------------------------------------------------
\* Zod (v3) parsing primitives
\*
\* A parse returns a status, the parsed value and the issues it added.
\* "aborted" is Zod's INVALID: the value is unusable and an enclosing
\* refinement is skipped; "dirty" carries issues but lets refinements run.
\* ------------------------------------------------------------------------

Issue(path, code, message) == [path |-> path, code |-> code, message |-> message]

OK(v) == [status |-> "valid", value |-> v, issues |-> <<>>]

Dirty(v, iss) == [status |-> "dirty", value |-> v, issues |-> iss]

Aborted(iss) == [status |-> "aborted", value |-> Undef, issues |-> iss]

\* Zod's default message of an invalid_type issue
InvalidTypeMessage(expected, received) ==
  IF received = "undefined" THEN "Required"
  ELSE "Expected " \o expected \o ", received " \o received

InvalidType(path, expected, v) ==
  Aborted(<<Issue(path, "invalid_type", InvalidTypeMessage(expected, v.t))>>)

\* z.string()
zString(v, path) == IF v.t = "string" THEN OK(v) ELSE InvalidType(path, "string", v)

\* a variant of zStringMin whose bound is exclusive: a string of exactly n
\* characters fails
zStringMinExclusive(v, path, n, message) ==
  IF v.t # "string" THEN InvalidType(path, "string", v)
  ELSE IF Len(v.v) <= n THEN Dirty(v, <<Issue(path, "too_small", message)>>)
  ELSE OK(v)

\* z.string().min(n, message): a failed check leaves the parse dirty
zStringMin(v, path, n, message) ==
  IF v.t # "string" THEN InvalidType(path, "string", v)
  ELSE IF Len(v.v) < n THEN Dirty(v, <<Issue(path, "too_small", message)>>)
  ELSE OK(v)

\* a variant of zEnum that admits every string
zEnumAnyString(v, path, values) ==
  IF v.t # "string" THEN InvalidType(path, "string", v) ELSE OK(v)

\* z.enum(values): a non-member aborts
zEnum(v, path, values) ==
  IF v.t # "string" THEN InvalidType(path, "string", v)
  ELSE IF v.v \notin values THEN Aborted(<<Issue(path, "invalid_enum_value", "Invalid enum value")>>)
  ELSE OK(v)

\* z.boolean()
zBoolean(v, path) == IF v.t = "boolean" THEN OK(v) ELSE InvalidType(path, "boolean", v)

\* z.number(): NaN is not a number for Zod
zNumber(v, path) == IF v.t = "number" THEN OK(v) ELSE InvalidType(path, "number", v)

\* z.number().positive()
zNumberPositive(v, path) ==
  IF v.t # "number" THEN InvalidType(path, "number", v)
  ELSE IF v.v <= 0 THEN Dirty(v, <<Issue(path, "too_small", "Number must be greater than 0")>>)
  ELSE OK(v)

PortMin == 1

PortMax == 65535

\* a variant of portSchema without the upper bound
portSchemaNoMax(v, path) ==
  IF v.t # "number" THEN InvalidType(path, "number", v)
  ELSE IF v.v < PortMin
  THEN Dirty(v, <<Issue(path, "too_small", "Number must be greater than or equal to 1")>>)
  ELSE OK(v)

\* portSchema = z.number().int().min(1).max(65535); the values of this model
\* are integers, so the int() check never fails
portSchema(v, path) ==
  IF v.t # "number" THEN InvalidType(path, "number", v)
  ELSE LET small == IF v.v < PortMin
                    THEN <<Issue(path, "too_small", "Number must be greater than or equal to 1")>>
                    ELSE <<>>
           big == IF v.v > PortMax
                  THEN <<Issue(path, "too_big", "Number must be less than or equal to 65535")>>
                  ELSE <<>>
       IN IF small \o big = <<>> THEN OK(v) ELSE Dirty(v, small \o big)

\* the values of a sequence, as a set
Range(q) == {q[i] : i \in 1..Len(q)}

\* the function f itself, tabulated over its domain once
Tabulated(f) == f @@ <<>>

\* the issues of the members of an object or array, in member order
RECURSIVE MemberIssues(_, _)
MemberIssues(keys, res) ==
  IF keys = <<>> THEN <<>> ELSE res[Head(keys)].issues \o MemberIssues(Tail(keys), res)

\* ParseStatus.mergeObjectSync / mergeArray: every member has been parsed,
\* the result is aborted when a member is, dirty when a member is dirty
MergeStatus(keys, res) ==
  IF \E i \in 1..Len(keys) : res[keys[i]].status = "aborted" THEN "aborted"
  ELSE IF \E i \in 1..Len(keys) : res[keys[i]].status = "dirty" THEN "dirty"
  ELSE "valid"

\* z.array(z.string())
zArrayOfString(v, path) ==
  IF v.t # "array" THEN InvalidType(path, "array", v)
  ELSE LET idx == [i \in 1..Len(v.v) |-> i]
           res == [i \in 1..Len(v.v) |-> zString(v.v[i], Append(path, ToString(i - 1)))]
       IN [status |-> MergeStatus(idx, res),
           value |-> IF MergeStatus(idx, res) = "aborted" THEN Undef ELSE v,
           issues |-> MemberIssues(idx, res)]

\* z.array(z.enum(values))
zArrayOfEnum(v, path, values) ==
  IF v.t # "array" THEN InvalidType(path, "array", v)
  ELSE LET idx == [i \in 1..Len(v.v) |-> i]
           res == [i \in 1..Len(v.v) |-> zEnum(v.v[i], Append(path, ToString(i - 1)), values)]
       IN [status |-> MergeStatus(idx, res),
           value |-> IF MergeStatus(idx, res) = "aborted" THEN Undef ELSE v,
           issues |-> MemberIssues(idx, res)]

\* z.object(shape): keys are parsed in shape order, unknown keys are dropped
zObject(keys, res) ==
  [status |-> MergeStatus(keys, res),
   value |-> IF MergeStatus(keys, res) = "aborted" THEN Undef
             ELSE Obj(Tabulated([k \in Range(keys) |-> res[k].value])),
   issues |-> MemberIssues(keys, res)]

\* schema.refine(check, {message, path}): skipped when the inner parse is
\* aborted; a failed check adds one issue and leaves the parse dirty
zRefine(inner, holds, path, message) ==
  IF inner.status = "aborted" THEN inner
  ELSE IF holds THEN inner
  ELSE Dirty(inner.value, Append(inner.issues, Issue(path, "custom", message)))

\* ------------------------------------------------------------------------
\* Enumerations of the schemas
\* ------------------------------------------------------------------------

EnvironmentTypes == {S_development, S_production, S_test, S_staging}

DatabaseTypes == {S_mongodb, S_mysql, S_postgresql, S_sqlite, S_redis}

JWTAlgorithms ==
  {S_HS256, S_HS384, S_HS512, S_RS256, S_RS384, S_RS512, S_ES256, S_ES384, S_ES512}

EmailServices == {S_gmail, S_yahoo, S_outlook, S_sendgrid, S_mailgun, S_ses, S_custom}

HTTPMethods == {S_GET, S_POST, S_PUT, S_DELETE, S_PATCH, S_OPTIONS, S_HEAD}

JwtSecretMinLength == 32

JwtSecretMessage == "JWT secret must be at least 32 characters long"

\* ------------------------------------------------------------------------
\* envVarsSchema: the flat schema of the raw environment
\* ------------------------------------------------------------------------

\* the keys of envVarsSchema, in declaration order
EnvKeys ==
  <<"PORT", "HOST", "NODE_ENV", "ENVIRONMENT",
    "DATABASE_TYPE", "DATABASE_URL", "DATABASE_HOST", "DATABASE_PORT",
    "DATABASE_USERNAME", "DATABASE_PASSWORD", "DATABASE_NAME",
    "DATABASE_POOL_SIZE", "DATABASE_CONNECTION_TIMEOUT", "DATABASE_SSL",
    "JWT_SECRET", "JWT_EXPIRES_IN", "JWT_REFRESH_SECRET", "JWT_REFRESH_EXPIRES_IN",
    "JWT_ALGORITHM", "JWT_ISSUER", "JWT_AUDIENCE", "JWT_SUBJECT",
    "CORS_ORIGIN", "CORS_METHODS", "CORS_ALLOWED_HEADERS", "CORS_CREDENTIALS",
    "CORS_MAX_AGE",
    "RATE_LIMIT_WINDOW_MS", "RATE_LIMIT_MAX", "SECURITY_HELMET",
    "SECURITY_COMPRESSION", "SECURITY_MORGAN", "SECURITY_CSRF",
    "EMAIL_SERVICE", "EMAIL_HOST", "EMAIL_PORT", "EMAIL_SECURE",
    "EMAIL_USERNAME", "EMAIL_PASSWORD", "EMAIL_FROM",
    "SERVER_TIMEOUT", "SERVER_KEEP_ALIVE", "SERVER_BODY_LIMIT", "SERVER_TRUST_PROXY">>

\* keys declared z.string().optional()
EnvOptionalStringKeys ==
  {"ENVIRONMENT", "DATABASE_URL", "DATABASE_HOST", "DATABASE_USERNAME",
   "DATABASE_PASSWORD", "DATABASE_NAME", "JWT_REFRESH_SECRET",
   "JWT_REFRESH_EXPIRES_IN", "JWT_ISSUER", "JWT_AUDIENCE", "JWT_SUBJECT",
   "CORS_ORIGIN", "CORS_METHODS", "CORS_ALLOWED_HEADERS",
   "EMAIL_HOST", "EMAIL_USERNAME", "EMAIL_PASSWORD", "EMAIL_FROM",
   "SERVER_BODY_LIMIT"}

\* keys declared string -> (val ? parseInt(val) : undefined) -> z.number().optional()
EnvOptionalNumberKeys ==
  {"DATABASE_PORT", "DATABASE_POOL_SIZE", "DATABASE_CONNECTION_TIMEOUT",
   "CORS_MAX_AGE", "RATE_LIMIT_WINDOW_MS", "RATE_LIMIT_MAX", "EMAIL_PORT",
   "SERVER_TIMEOUT"}

\* keys declared string -> (val === 'true')
EnvBooleanKeys ==
  {"DATABASE_SSL", "CORS_CREDENTIALS", "SECURITY_HELMET", "SECURITY_COMPRESSION",
   "SECURITY_MORGAN", "SECURITY_CSRF", "EMAIL_SECURE", "SERVER_KEEP_ALIVE",
   "SERVER_TRUST_PROXY"}

\* a variant of envDefaultString that puts the default in place of any value
envDefaultStringAlways(v, k, d) == zString(Str(d), <<k>>)

\* z.string().default(d)
envDefaultString(v, k, d) == zString(IF v.t = "undefined" THEN Str(d) ELSE v, <<k>>)

\* z.enum(values).default(d)
envDefaultEnum(v, k, values, d) ==
  zEnum(IF v.t = "undefined" THEN Str(d) ELSE v, <<k>>, values)

\* z.string().optional()
envOptionalString(v, k) == IF v.t = "undefined" THEN OK(Undef) ELSE zString(v, <<k>>)

\* z.enum(values).optional()
envOptionalEnum(v, k, values) ==
  IF v.t = "undefined" THEN OK(Undef) ELSE zEnum(v, <<k>>, values)

\* PORT: z.string().default('3000').transform((val) => parseInt(val)).pipe(portSchema)
envPort(v, k) ==
  LET str == envDefaultString(v, k, S_3000)
  IN IF str.status # "valid" THEN str ELSE portSchema(parseInt(str.value.v, 0), <<k>>)

\* z.string().optional().transform((val) => (val ? parseInt(val) : undefined))
\*  .pipe(z.number().optional())
envOptionalNumber(v, k) ==
  LET str == envOptionalString(v, k)
      val == IF Truthy(str.value) THEN parseInt(str.value.v, 0) ELSE Undef
  IN IF str.status # "valid" THEN str
     ELSE IF val.t = "undefined" THEN OK(Undef)
     ELSE zNumber(val, <<k>>)

\* a variant of envBoolean that coerces by truthiness
envBooleanTruthy(v, k) ==
  LET str == envOptionalString(v, k)
  IN IF str.status # "valid" THEN str ELSE OK(Bool(Truthy(str.value)))

\* z.string().optional().transform((val) => val === 'true')
envBoolean(v, k) ==
  LET str == envOptionalString(v, k)
  IN IF str.status # "valid" THEN str
     ELSE OK(Bool(str.value.t = "string" /\ str.value.v = S_true))

\* the schema of one key of envVarsSchema
envVarsField(k, v) ==
  CASE k = "PORT" -> envPort(v, k)
    [] k = "HOST" -> envDefaultString(v, k, S_localhost)
    [] k = "NODE_ENV" -> envDefaultEnum(v, k, EnvironmentTypes, S_development)
    [] k = "DATABASE_TYPE" -> envDefaultEnum(v, k, DatabaseTypes, S_mongodb)
    [] k = "JWT_SECRET" -> zStringMin(v, <<k>>, JwtSecretMinLength, JwtSecretMessage)
    [] k = "JWT_EXPIRES_IN" -> envDefaultString(v, k, S_24h)
    [] k = "JWT_ALGORITHM" -> envDefaultEnum(v, k, JWTAlgorithms, S_HS256)
    [] k = "EMAIL_SERVICE" -> envOptionalEnum(v, k, EmailServices)
    [] k \in EnvOptionalNumberKeys -> envOptionalNumber(v, k)
    [] k \in EnvBooleanKeys -> envBoolean(v, k)
    [] k \in EnvOptionalStringKeys -> envOptionalString(v, k)

\* the refinement of envVarsSchema: without DATABASE_URL, a backend other
\* than mongodb needs DATABASE_HOST and DATABASE_NAME
envDatabaseRefinement(data) ==
  IF ~Truthy(data.DATABASE_URL) /\ ~StrEq(data.DATABASE_TYPE, S_mongodb)
  THEN Truthy(data.DATABASE_HOST) /\ Truthy(data.DATABASE_NAME)
  ELSE TRUE

EnvDatabaseMessage ==
  "For non-MongoDB databases, either DATABASE_URL or both DATABASE_HOST and DATABASE_NAME must be provided"

\* envVarsSchema applied to the object env (a function from keys to values)
envVarsSchema(env) ==
  LET res == Tabulated([k \in Range(EnvKeys) |-> envVarsField(k, Get(env, k))])
      inner == zObject(EnvKeys, res)
  IN zRefine(inner, envDatabaseRefinement(inner.value.v), <<"DATABASE_URL">>,
             EnvDatabaseMessage)

\* ------------------------------------------------------------------------
\* The nested schemas of the composed configuration
\* ------------------------------------------------------------------------

\* schema.optional() for the leaf schemas used below
zOptString(v, path) == IF v.t = "undefined" THEN OK(Undef) ELSE zString(v, path)

zOptBoolean(v, path) == IF v.t = "undefined" THEN OK(Undef) ELSE zBoolean(v, path)

zOptPositive(v, path) == IF v.t = "undefined" THEN OK(Undef) ELSE zNumberPositive(v, path)

zOptPort(v, path) == IF v.t = "undefined" THEN OK(Undef) ELSE portSchema(v, path)

zOptEnum(v, path, values) == IF v.t = "undefined" THEN OK(Undef) ELSE zEnum(v, path, values)

\* z.record(z.unknown()).optional()
zOptRecord(v, path) ==
  IF v.t \in {"undefined", "object"} THEN OK(v) ELSE InvalidType(path, "object", v)

\* z.object(shape) applied to v: field(k, x, p) is the schema of key k
zObjectAt(v, path, keys, field(_, _, _)) ==
  IF v.t # "object" THEN InvalidType(path, "object", v)
  ELSE zObject(keys, Tabulated([k \in Range(keys) |->
                                   field(k, Get(v.v, k), Append(path, k))]))

\* nonEmptyString = z.string().min(1)
nonEmptyString(v, path) ==
  zStringMin(v, path, 1, "String must contain at least 1 character(s)")

ServerKeys ==
  <<"port", "host", "environment", "nodeEnv", "timeout", "keepAlive", "bodyLimit",
    "trustProxy">>

serverField(k, v, path) ==
  CASE k = "port" -> portSchema(v, path)
    [] k = "host" -> zString(IF v.t = "undefined" THEN Str(S_localhost) ELSE v, path)
    [] k = "environment" -> zEnum(v, path, EnvironmentTypes)
    [] k \in {"nodeEnv", "bodyLimit"} -> zOptString(v, path)
    [] k = "timeout" -> zOptPositive(v, path)
    [] k \in {"keepAlive", "trustProxy"} -> zOptBoolean(v, path)

serverConfigSchema(v, path) == zObjectAt(v, path, ServerKeys, serverField)

DatabaseKeys ==
  <<"type", "host", "port", "username", "password", "databaseName", "url", "poolSize",
    "connectionTimeout", "ssl", "options">>

databaseField(k, v, path) ==
  CASE k = "type" -> zEnum(v, path, DatabaseTypes)
    [] k \in {"host", "username", "password", "databaseName", "url"} -> zOptString(v, path)
    [] k = "port" -> zOptPort(v, path)
    [] k \in {"poolSize", "connectionTimeout"} -> zOptPositive(v, path)
    [] k = "ssl" -> zOptBoolean(v, path)
    [] k = "options" -> zOptRecord(v, path)

DatabaseMessage == "Either 'url' or both 'host' and 'databaseName' must be provided"

\* variant: the completeness rule of the database section left out
databaseRefinementNone(data) == TRUE

\* data.url || (data.host && data.databaseName)
databaseRefinement(data) ==
  Truthy(data.url) \/ (Truthy(data.host) /\ Truthy(data.databaseName))

databaseConfigSchema(v, path) ==
  LET inner == zObjectAt(v, path, DatabaseKeys, databaseField)
  IN zRefine(inner, databaseRefinement(inner.value.v), Append(path, "url"), DatabaseMessage)

JwtKeys ==
  <<"secret", "expiresIn", "refreshSecret", "refreshExpiresIn", "algorithm", "issuer",
    "audience", "subject", "notBefore", "jwtid">>

\* secret: nonEmptyString.min(32, message) carries both length checks
jwtSecretField(v, path) ==
  IF v.t # "string" THEN InvalidType(path, "string", v)
  ELSE LET one == nonEmptyString(v, path).issues
           min == zStringMin(v, path, JwtSecretMinLength, JwtSecretMessage).issues
       IN IF one \o min = <<>> THEN OK(v) ELSE Dirty(v, one \o min)

jwtField(k, v, path) ==
  CASE k = "secret" -> jwtSecretField(v, path)
    [] k = "expiresIn" -> zString(IF v.t = "undefined" THEN Str(S_24h) ELSE v, path)
    [] k = "algorithm" ->
         zEnum(IF v.t = "undefined" THEN Str(S_HS256) ELSE v, path, JWTAlgorithms)
    [] k \in {"refreshSecret", "refreshExpiresIn", "issuer", "audience", "subject",
              "notBefore", "jwtid"} -> zOptString(v, path)

jwtConfigSchema(v, path) == zObjectAt(v, path, JwtKeys, jwtField)

CorsKeys ==
  <<"origin", "methods", "allowedHeaders", "credentials", "maxAge", "preflightContinue",
    "optionsSuccessStatus", "exposedHeaders">>

\* z.union([z.string(), z.array(z.string()), z.boolean(), z.instanceof(RegExp)])
corsOriginField(v, path) ==
  IF v.t \in {"string", "boolean"} THEN OK(v)
  ELSE IF v.t = "array" /\ zArrayOfString(v, path).status = "valid" THEN OK(v)
  ELSE Aborted(<<Issue(path, "invalid_union", "Invalid input")>>)

\* z.number().int().min(200).max(299)
successStatusField(v, path) ==
  IF v.t # "number" THEN InvalidType(path, "number", v)
  ELSE IF v.v < 200
       THEN Dirty(v, <<Issue(path, "too_small", "Number must be greater than or equal to 200")>>)
  ELSE IF v.v > 299
       THEN Dirty(v, <<Issue(path, "too_big", "Number must be less than or equal to 299")>>)
  ELSE OK(v)

corsField(k, v, path) ==
  CASE k = "origin" -> IF v.t = "undefined" THEN OK(Undef) ELSE corsOriginField(v, path)
    [] k = "methods" ->
         IF v.t = "undefined" THEN OK(Undef) ELSE zArrayOfEnum(v, path, HTTPMethods)
    [] k \in {"allowedHeaders", "exposedHeaders"} ->
         IF v.t = "undefined" THEN OK(Undef) ELSE zArrayOfString(v, path)
    [] k \in {"credentials", "preflightContinue"} -> zOptBoolean(v, path)
    [] k = "maxAge" -> zOptPositive(v, path)
    [] k = "optionsSuccessStatus" ->
         IF v.t = "undefined" THEN OK(Undef) ELSE successStatusField(v, path)

corsConfigSchema(v, path) == zObjectAt(v, path, CorsKeys, corsField)

SessionKeys == <<"secret", "name", "maxAge", "secure", "httpOnly", "sameSite">>

sessionField(k, v, path) ==
  CASE k = "secret" -> nonEmptyString(v, path)
    [] k = "name" -> zOptString(v, path)
    [] k = "maxAge" -> zOptPositive(v, path)
    [] k \in {"secure", "httpOnly"} -> zOptBoolean(v, path)
    [] k = "sameSite" ->
         zOptEnum(v, path, {<<"s", "t", "r", "i", "c", "t">>, <<"l", "a", "x">>,
                            <<"n", "o", "n", "e">>})

SecurityKeys ==
  <<"rateLimitWindowMs", "rateLimitMax", "helmet", "compression", "morgan", "csrf",
    "session", "csp">>

securityField(k, v, path) ==
  CASE k \in {"rateLimitWindowMs", "rateLimitMax"} -> zOptPositive(v, path)
    [] k \in {"helmet", "compression", "morgan", "csrf"} -> zOptBoolean(v, path)
    [] k = "session" ->
         IF v.t = "undefined" THEN OK(Undef) ELSE zObjectAt(v, path, SessionKeys, sessionField)
    [] k = "csp" -> zOptRecord(v, path)

securityConfigSchema(v, path) == zObjectAt(v, path, SecurityKeys, securityField)

EmailKeys ==
  <<"service", "host", "port", "secure", "username", "password", "from", "replyTo",
    "connectionTimeout", "authMethod">>

emailField(k, v, path) ==
  CASE k = "service" -> zOptEnum(v, path, EmailServices)
    [] k \in {"host", "username", "password", "from", "replyTo"} -> zOptString(v, path)
    [] k = "port" -> zOptPort(v, path)
    [] k = "secure" -> zOptBoolean(v, path)
    [] k = "connectionTimeout" -> zOptPositive(v, path)
    [] k = "authMethod" ->
         zOptEnum(v, path, {<<"p", "l", "a", "i", "n">>, <<"l", "o", "g", "i", "n">>,
                            <<"o", "a", "u", "t", "h", "2">>})

EmailMessage == "Custom email service requires 'host' and 'port'"

\* if (data.service === 'custom') return data.host && data.port; return true
emailRefinement(data) ==
  IF StrEq(data.service, S_custom) THEN Truthy(data.host) /\ Truthy(data.port) ELSE TRUE

emailConfigSchema(v, path) ==
  LET inner == zObjectAt(v, path, EmailKeys, emailField)
  IN zRefine(inner, emailRefinement(inner.value.v), Append(path, "host"), EmailMessage)

FastKitKeys == <<"server", "database", "jwt", "cors", "security", "email", "custom">>

fastKitField(k, v, path) ==
  CASE k = "server" -> serverConfigSchema(v, path)
    [] k = "database" -> databaseConfigSchema(v, path)
    [] k = "jwt" -> jwtConfigSchema(v, path)
    [] k = "cors" -> IF v.t = "undefined" THEN OK(Undef) ELSE corsConfigSchema(v, path)
    [] k = "security" -> IF v.t = "undefined" THEN OK(Undef) ELSE securityConfigSchema(v, path)
    [] k = "email" -> IF v.t = "undefined" THEN OK(Undef) ELSE emailConfigSchema(v, path)
    [] k = "custom" -> zOptRecord(v, path)

fastKitConfigSchema(v) == zObjectAt(v, <<>>, FastKitKeys, fastKitField)

\* ------------------------------------------------------------------------
\* validateConfig, parseCorsOrigin, validateEnvData
\* ------------------------------------------------------------------------

\* `${err.path.join('.')}: ${err.message}`, kept as its two parts
FormatError(issue) == [path |-> issue.path, message |-> issue.message]

FormatErrors(issues) == [i \in 1..Len(issues) |-> FormatError(issues[i])]

\* variant: the signing secret is masked in the configuration handed back
validateConfigMasked(config) ==
  LET parsed == fastKitConfigSchema(config)
      jwt == parsed.value.v.jwt
      masked == [k \in DOMAIN jwt.v |->
                   IF k = "secret" THEN Str(<<"*", "*", "*">>) ELSE jwt.v[k]]
  IN IF parsed.issues = <<>>
     THEN [isValid |-> TRUE, errors |-> <<>>,
           config |-> Obj([k \in DOMAIN parsed.value.v |->
                             IF k = "jwt" THEN Obj(masked) ELSE parsed.value.v[k]])]
     ELSE [isValid |-> FALSE, errors |-> FormatErrors(parsed.issues), config |-> Undef]

\* validateConfig(config): fastKitConfigSchema.parse throws on any issue
validateConfig(config) ==
  LET parsed == fastKitConfigSchema(config)
  IN IF parsed.issues = <<>>
     THEN [isValid |-> TRUE, errors |-> <<>>, config |-> parsed.value]
     ELSE [isValid |-> FALSE, errors |-> FormatErrors(parsed.issues), config |-> Undef]

\* origin.split(',').map((o) => o.trim())
SplitTrimmed(s) == LET parts == Split(s, ",") IN [i \in 1..Len(parts) |-> Str(Trim(parts[i]))]

\* value.split(',')
SplitList(s) == LET parts == Split(s, ",") IN [i \in 1..Len(parts) |-> Str(parts[i])]

\* a variant of parseCorsOrigin that does not trim the items
parseCorsOriginNoTrim(origin) ==
  IF origin = S_true THEN Bool(TRUE)
  ELSE IF origin = S_false THEN Bool(FALSE)
  ELSE IF Includes(origin, ",") THEN Arr(SplitList(origin))
  ELSE Str(origin)

parseCorsOrigin(origin) ==
  IF origin = S_true THEN Bool(TRUE)
  ELSE IF origin = S_false THEN Bool(FALSE)
  ELSE IF Includes(origin, ",") THEN Arr(SplitTrimmed(origin))
  ELSE Str(origin)

\* the characters of an object key
KeyChars(k) ==
    CASE k = "PORT" -> <<"P", "O", "R", "T">>
      [] k = "HOST" -> <<"H", "O", "S", "T">>
      [] k = "NODE_ENV" -> <<"N", "O", "D", "E", "_", "E", "N", "V">>
      [] k = "ENVIRONMENT" -> <<"E", "N", "V", "I", "R", "O", "N", "M", "E", "N", "T">>
      [] k = "DATABASE_TYPE" -> <<"D", "A", "T", "A", "B", "A", "S", "E", "_", "T", "Y", "P", "E">>
      [] k = "DATABASE_URL" -> <<"D", "A", "T", "A", "B", "A", "S", "E", "_", "U", "R", "L">>
      [] k = "DATABASE_HOST" -> <<"D", "A", "T", "A", "B", "A", "S", "E", "_", "H", "O", "S", "T">>
      [] k = "DATABASE_PORT" -> <<"D", "A", "T", "A", "B", "A", "S", "E", "_", "P", "O", "R", "T">>
      [] k = "DATABASE_USERNAME" -> <<"D", "A", "T", "A", "B", "A", "S", "E", "_", "U", "S", "E", "R", "N", "A", "M", "E">>
      [] k = "DATABASE_PASSWORD" -> <<"D", "A", "T", "A", "B", "A", "S", "E", "_", "P", "A", "S", "S", "W", "O", "R", "D">>
      [] k = "DATABASE_NAME" -> <<"D", "A", "T", "A", "B", "A", "S", "E", "_", "N", "A", "M", "E">>
      [] k = "DATABASE_POOL_SIZE" -> <<"D", "A", "T", "A", "B", "A", "S", "E", "_", "P", "O", "O", "L", "_", "S", "I", "Z", "E">>
      [] k = "DATABASE_CONNECTION_TIMEOUT" -> <<"D", "A", "T", "A", "B", "A", "S", "E", "_", "C", "O", "N", "N", "E", "C", "T", "I", "O", "N", "_", "T", "I", "M", "E", "O", "U", "T">>
      [] k = "DATABASE_SSL" -> <<"D", "A", "T", "A", "B", "A", "S", "E", "_", "S", "S", "L">>
      [] k = "JWT_SECRET" -> <<"J", "W", "T", "_", "S", "E", "C", "R", "E", "T">>
      [] k = "JWT_EXPIRES_IN" -> <<"J", "W", "T", "_", "E", "X", "P", "I", "R", "E", "S", "_", "I", "N">>
      [] k = "JWT_REFRESH_SECRET" -> <<"J", "W", "T", "_", "R", "E", "F", "R", "E", "S", "H", "_", "S", "E", "C", "R", "E", "T">>
      [] k = "JWT_REFRESH_EXPIRES_IN" -> <<"J", "W", "T", "_", "R", "E", "F", "R", "E", "S", "H", "_", "E", "X", "P", "I", "R", "E", "S", "_", "I", "N">>
      [] k = "JWT_ALGORITHM" -> <<"J", "W", "T", "_", "A", "L", "G", "O", "R", "I", "T", "H", "M">>
      [] k = "JWT_ISSUER" -> <<"J", "W", "T", "_", "I", "S", "S", "U", "E", "R">>
      [] k = "JWT_AUDIENCE" -> <<"J", "W", "T", "_", "A", "U", "D", "I", "E", "N", "C", "E">>
      [] k = "JWT_SUBJECT" -> <<"J", "W", "T", "_", "S", "U", "B", "J", "E", "C", "T">>
      [] k = "CORS_ORIGIN" -> <<"C", "O", "R", "S", "_", "O", "R", "I", "G", "I", "N">>
      [] k = "CORS_METHODS" -> <<"C", "O", "R", "S", "_", "M", "E", "T", "H", "O", "D", "S">>
      [] k = "CORS_ALLOWED_HEADERS" -> <<"C", "O", "R", "S", "_", "A", "L", "L", "O", "W", "E", "D", "_", "H", "E", "A", "D", "E", "R", "S">>
      [] k = "CORS_CREDENTIALS" -> <<"C", "O", "R", "S", "_", "C", "R", "E", "D", "E", "N", "T", "I", "A", "L", "S">>
      [] k = "CORS_MAX_AGE" -> <<"C", "O", "R", "S", "_", "M", "A", "X", "_", "A", "G", "E">>
      [] k = "RATE_LIMIT_WINDOW_MS" -> <<"R", "A", "T", "E", "_", "L", "I", "M", "I", "T", "_", "W", "I", "N", "D", "O", "W", "_", "M", "S">>
      [] k = "RATE_LIMIT_MAX" -> <<"R", "A", "T", "E", "_", "L", "I", "M", "I", "T", "_", "M", "A", "X">>
      [] k = "SECURITY_HELMET" -> <<"S", "E", "C", "U", "R", "I", "T", "Y", "_", "H", "E", "L", "M", "E", "T">>
      [] k = "SECURITY_COMPRESSION" -> <<"S", "E", "C", "U", "R", "I", "T", "Y", "_", "C", "O", "M", "P", "R", "E", "S", "S", "I", "O", "N">>
      [] k = "SECURITY_MORGAN" -> <<"S", "E", "C", "U", "R", "I", "T", "Y", "_", "M", "O", "R", "G", "A", "N">>
      [] k = "SECURITY_CSRF" -> <<"S", "E", "C", "U", "R", "I", "T", "Y", "_", "C", "S", "R", "F">>
      [] k = "EMAIL_SERVICE" -> <<"E", "M", "A", "I", "L", "_", "S", "E", "R", "V", "I", "C", "E">>
      [] k = "EMAIL_HOST" -> <<"E", "M", "A", "I", "L", "_", "H", "O", "S", "T">>
      [] k = "EMAIL_PORT" -> <<"E", "M", "A", "I", "L", "_", "P", "O", "R", "T">>
      [] k = "EMAIL_SECURE" -> <<"E", "M", "A", "I", "L", "_", "S", "E", "C", "U", "R", "E">>
      [] k = "EMAIL_USERNAME" -> <<"E", "M", "A", "I", "L", "_", "U", "S", "E", "R", "N", "A", "M", "E">>
      [] k = "EMAIL_PASSWORD" -> <<"E", "M", "A", "I", "L", "_", "P", "A", "S", "S", "W", "O", "R", "D">>
      [] k = "EMAIL_FROM" -> <<"E", "M", "A", "I", "L", "_", "F", "R", "O", "M">>
      [] k = "SERVER_TIMEOUT" -> <<"S", "E", "R", "V", "E", "R", "_", "T", "I", "M", "E", "O", "U", "T">>
      [] k = "SERVER_KEEP_ALIVE" -> <<"S", "E", "R", "V", "E", "R", "_", "K", "E", "E", "P", "_", "A", "L", "I", "V", "E">>
      [] k = "SERVER_BODY_LIMIT" -> <<"S", "E", "R", "V", "E", "R", "_", "B", "O", "D", "Y", "_", "L", "I", "M", "I", "T">>
      [] k = "SERVER_TRUST_PROXY" -> <<"S", "E", "R", "V", "E", "R", "_", "T", "R", "U", "S", "T", "_", "P", "R", "O", "X", "Y">>
      [] k = "APP_NAME" -> <<"A", "P", "P", "_", "N", "A", "M", "E">>
      [] k = "API_VERSION" -> <<"A", "P", "I", "_", "V", "E", "R", "S", "I", "O", "N">>
      [] k = "MAX_FILE_SIZE" -> <<"M", "A", "X", "_", "F", "I", "L", "E", "_", "S", "I", "Z", "E">>
      [] k = "CUSTOM_DEBUG" -> <<"C", "U", "S", "T", "O", "M", "_", "D", "E", "B", "U", "G">>

\* variant: only the CUSTOM_ prefix is taken
customConfigCustomOnly(env) ==
  LET ks == {k \in DOMAIN env :
               StartsWith(KeyChars(k), S_CUSTOM_) /\ env[k].t # "undefined"}
  IN [k \in ks |-> env[k]]

\* the custom section: the keys of env that start with CUSTOM_ or APP_ and
\* hold a defined value
customConfig(env) ==
  LET ks == {k \in DOMAIN env :
               /\ StartsWith(KeyChars(k), S_CUSTOM_) \/ StartsWith(KeyChars(k), S_APP_)
               /\ env[k].t # "undefined"}
  IN [k \in ks |-> env[k]]

\* the configuration validateEnvData composes from the validated flat fields
composeConfig(e, env) ==
  Obj([server |-> Obj([port |-> e.PORT, host |-> e.HOST, environment |-> e.NODE_ENV,
                       nodeEnv |-> e.ENVIRONMENT, timeout |-> e.SERVER_TIMEOUT,
                       keepAlive |-> e.SERVER_KEEP_ALIVE, bodyLimit |-> e.SERVER_BODY_LIMIT,
                       trustProxy |-> e.SERVER_TRUST_PROXY]),
       database |-> Obj([type |-> e.DATABASE_TYPE, url |-> e.DATABASE_URL,
                         host |-> e.DATABASE_HOST, port |-> e.DATABASE_PORT,
                         username |-> e.DATABASE_USERNAME, password |-> e.DATABASE_PASSWORD,
                         databaseName |-> e.DATABASE_NAME, poolSize |-> e.DATABASE_POOL_SIZE,
                         connectionTimeout |-> e.DATABASE_CONNECTION_TIMEOUT,
                         ssl |-> e.DATABASE_SSL]),
       jwt |-> Obj([secret |-> e.JWT_SECRET, expiresIn |-> e.JWT_EXPIRES_IN,
                    refreshSecret |-> e.JWT_REFRESH_SECRET,
                    refreshExpiresIn |-> e.JWT_REFRESH_EXPIRES_IN,
                    algorithm |-> e.JWT_ALGORITHM, issuer |-> e.JWT_ISSUER,
                    audience |-> e.JWT_AUDIENCE, subject |-> e.JWT_SUBJECT]),
       cors |-> IF Truthy(e.CORS_ORIGIN) \/ Truthy(e.CORS_METHODS)
                THEN Obj([origin |-> IF Truthy(e.CORS_ORIGIN)
                                     THEN parseCorsOrigin(e.CORS_ORIGIN.v) ELSE Undef,
                          methods |-> IF Truthy(e.CORS_METHODS)
                                      THEN Arr(SplitList(e.CORS_METHODS.v)) ELSE Undef,
                          allowedHeaders |-> IF Truthy(e.CORS_ALLOWED_HEADERS)
                                             THEN Arr(SplitList(e.CORS_ALLOWED_HEADERS.v))
                                             ELSE Undef,
                          credentials |-> e.CORS_CREDENTIALS, maxAge |-> e.CORS_MAX_AGE])
                ELSE Undef,
       security |-> IF Truthy(e.RATE_LIMIT_WINDOW_MS) \/ e.SECURITY_HELMET.t # "undefined"
                    THEN Obj([rateLimitWindowMs |-> e.RATE_LIMIT_WINDOW_MS,
                              rateLimitMax |-> e.RATE_LIMIT_MAX, helmet |-> e.SECURITY_HELMET,
                              compression |-> e.SECURITY_COMPRESSION,
                              morgan |-> e.SECURITY_MORGAN, csrf |-> e.SECURITY_CSRF])
                    ELSE Undef,
       email |-> IF Truthy(e.EMAIL_SERVICE) \/ Truthy(e.EMAIL_HOST)
                 THEN Obj([service |-> e.EMAIL_SERVICE, host |-> e.EMAIL_HOST,
                           port |-> e.EMAIL_PORT, secure |-> e.EMAIL_SECURE,
                           username |-> e.EMAIL_USERNAME, password |-> e.EMAIL_PASSWORD,
                           from |-> e.EMAIL_FROM])
                 ELSE Undef,
       custom |-> IF DOMAIN customConfig(env) # {} THEN Obj(customConfig(env)) ELSE Undef])

\* variant: the catch hands back the flat fields it was given
validateEnvDataKeepsInput(env) ==
  LET parsed == envVarsSchema(env)
      finalValidation == validateConfig(composeConfig(parsed.value.v, env))
  IN IF parsed.issues # <<>>
     THEN [isValid |-> FALSE, errors |-> FormatErrors(parsed.issues),
           config |-> Undef, envVars |-> Obj(env)]
     ELSE IF ~finalValidation.isValid
     THEN [isValid |-> FALSE, errors |-> finalValidation.errors,
           config |-> Undef, envVars |-> parsed.value]
     ELSE [isValid |-> TRUE, errors |-> <<>>, config |-> finalValidation.config,
           envVars |-> parsed.value]

\* validateEnvData(env): envVarsSchema.parse throws on any issue and the
\* catch turns the issues into the errors of an invalid result; otherwise
\* the composed configuration goes through validateConfig
validateEnvData(env) ==
  LET parsed == envVarsSchema(env)
      finalValidation == validateConfig(composeConfig(parsed.value.v, env))
  IN IF parsed.issues # <<>>
     THEN [isValid |-> FALSE, errors |-> FormatErrors(parsed.issues),
           config |-> Undef, envVars |-> Undef]
     ELSE IF ~finalValidation.isValid
     THEN [isValid |-> FALSE, errors |-> finalValidation.errors,
           config |-> Undef, envVars |-> Undef]
     ELSE [isValid |-> TRUE, errors |-> <<>>, config |-> finalValidation.config,
           envVars |-> parsed.value]

\* ------------------------------------------------------------------------
\* EnvConstants: the typed environment built from process.env at import
\* ------------------------------------------------------------------------

\* process.env.KEY || fallback
OrDefault(penv, k, d) == IF Truthy(Get(penv, k)) THEN Get(penv, k) ELSE Str(d)

getEnvironmentType(x) ==
  IF x.t = "string" /\ x.v \in EnvironmentTypes THEN x ELSE Str(S_development)

getDatabaseType(x) ==
  IF x.t = "string" /\ x.v \in DatabaseTypes THEN x ELSE Str(S_mongodb)

\* process.env.KEY ? parseInt(process.env.KEY, 10) : fallback
IntOr(penv, k, fallback) ==
  IF Truthy(Get(penv, k)) THEN parseInt(Get(penv, k).v, 10) ELSE fallback

\* process.env.KEY === 'true'
IsTrue(penv, k) == Bool(StrEq(Get(penv, k), S_true))

DefaultPoolSize == 10

envConstants(penv) ==
  [PORT |-> parseInt(OrDefault(penv, "PORT", S_3000).v, 0),
   HOST |-> OrDefault(penv, "HOST", S_localhost),
   NODE_ENV |-> getEnvironmentType(Get(penv, "NODE_ENV")),
   ENVIRONMENT |-> getEnvironmentType(OrDefault(penv, "ENVIRONMENT", S_development)),
   SERVER_TIMEOUT |-> parseInt(OrDefault(penv, "SERVER_TIMEOUT", S_30000).v, 10),
   SERVER_KEEP_ALIVE |-> IsTrue(penv, "SERVER_KEEP_ALIVE"),
   SERVER_BODY_LIMIT |-> OrDefault(penv, "SERVER_BODY_LIMIT", S_100mb),
   SERVER_TRUST_PROXY |-> IsTrue(penv, "SERVER_TRUST_PROXY"),
   DATABASE_TYPE |-> getDatabaseType(Get(penv, "DATABASE_TYPE")),
   DATABASE_URL |-> OrDefault(penv, "DATABASE_URL", S_defaultDatabaseUrl),
   DATABASE_HOST |-> Get(penv, "DATABASE_HOST"),
   DATABASE_PORT |-> IntOr(penv, "DATABASE_PORT", Undef),
   DATABASE_USERNAME |-> Get(penv, "DATABASE_USERNAME"),
   DATABASE_PASSWORD |-> Get(penv, "DATABASE_PASSWORD"),
   DATABASE_NAME |-> Get(penv, "DATABASE_NAME"),
   DATABASE_SSL |-> IsTrue(penv, "DATABASE_SSL"),
   DATABASE_POOL_SIZE |-> IntOr(penv, "DATABASE_POOL_SIZE", Num(DefaultPoolSize)),
   JWT_SECRET |-> OrDefault(penv, "JWT_SECRET", S_defaultJwtSecret),
   JWT_EXPIRES_IN |-> OrDefault(penv, "JWT_EXPIRES_IN", S_24h),
   JWT_ALGORITHM |-> OrDefault(penv, "JWT_ALGORITHM", S_HS256),
   CORS_ORIGIN |-> IF StrEq(Get(penv, "CORS_ORIGIN"), S_true) THEN Bool(TRUE)
                   ELSE IF StrEq(Get(penv, "CORS_ORIGIN"), S_false) THEN Bool(FALSE)
                   ELSE Get(penv, "CORS_ORIGIN"),
   CORS_METHODS |-> Get(penv, "CORS_METHODS"),
   CORS_ALLOWED_HEADERS |-> Get(penv, "CORS_ALLOWED_HEADERS"),
   CORS_CREDENTIALS |-> IsTrue(penv, "CORS_CREDENTIALS"),
   RATE_LIMIT_WINDOW_MS |-> IntOr(penv, "RATE_LIMIT_WINDOW_MS", Undef),
   RATE_LIMIT_MAX |-> IntOr(penv, "RATE_LIMIT_MAX", Undef),
   SECURITY_HELMET |-> IsTrue(penv, "SECURITY_HELMET"),
   SECURITY_COMPRESSION |-> IsTrue(penv, "SECURITY_COMPRESSION"),
   SECURITY_MORGAN |-> IsTrue(penv, "SECURITY_MORGAN"),
   EMAIL_SERVICE |-> Get(penv, "EMAIL_SERVICE"),
   EMAIL_HOST |-> Get(penv, "EMAIL_HOST"),
   EMAIL_PORT |-> IntOr(penv, "EMAIL_PORT", Undef),
   EMAIL_SECURE |-> IsTrue(penv, "EMAIL_SECURE"),
   EMAIL_USERNAME |-> Get(penv, "EMAIL_USERNAME"),
   EMAIL_PASSWORD |-> Get(penv, "EMAIL_PASSWORD"),
   EMAIL_FROM |-> Get(penv, "EMAIL_FROM"),
   APP_NAME |-> Get(penv, "APP_NAME"),
   API_VERSION |-> Get(penv, "API_VERSION"),
   MAX_FILE_SIZE |-> Get(penv, "MAX_FILE_SIZE")]

\* FastKitConfig.validateEnv(): validateEnvData(EnvConstants), reduced to
\* isValid and errors
FastKitConfig_validateEnv(constants) ==
  [isValid |-> validateEnvData(constants).isValid,
   errors |-> validateEnvData(constants).errors]

\* ------------------------------------------------------------------------
\* Raw environments: the fixtures of the test suite and the raw values the
\* environment is edited with
\* ------------------------------------------------------------------------

R_0 == <<"0">>
R_1 == <<"1">>
R_minus1 == <<"-", "1">>
R_minus5 == <<"-", "5">>
R_65535 == <<"6", "5", "5", "3", "5">>
R_65536 == <<"6", "5", "5", "3", "6">>
R_70000 == <<"7", "0", "0", "0", "0">>
R_8080 == <<"8", "0", "8", "0">>
R_abc == <<"a", "b", "c">>
R_3000abc == <<"3", "0", "0", "0", "a", "b", "c">>
R_12dot5 == <<"1", "2", ".", "5">>
R_0x1F == <<"0", "x", "1", "F">>
R_TRUE == <<"T", "R", "U", "E">>
R_yes == <<"y", "e", "s">>
R_invalidEnv == <<"i", "n", "v", "a", "l", "i", "d", "-", "e", "n", "v">>
R_Production == <<"P", "r", "o", "d", "u", "c", "t", "i", "o", "n">>
R_invalidDb == <<"i", "n", "v", "a", "l", "i", "d", "-", "d", "b">>
R_MongoDB == <<"M", "o", "n", "g", "o", "D", "B">>
R_hs256 == <<"h", "s", "2", "5", "6">>
R_none == <<"n", "o", "n", "e">>
R_Gmail == <<"G", "m", "a", "i", "l">>
R_smtp == <<"s", "m", "t", "p">>
R_short == <<"s", "h", "o", "r", "t">>
R_testSecret == <<"t", "e", "s", "t", "-", "s", "e", "c", "r", "e", "t", "-", "k", "e", "y", "-", "m", "i", "n", "i", "m", "u", "m", "-", "3", "2", "-", "c", "h", "a", "r", "a", "c", "t", "e", "r", "s", "-", "l", "o", "n", "g">>
R_testDbUrl == <<"m", "o", "n", "g", "o", "d", "b", ":", "/", "/", "l", "o", "c", "a", "l", "h", "o", "s", "t", ":", "2", "7", "0", "1", "7", "/", "t", "e", "s", "t", "d", "b">>
R_anyHost == <<"0", ".", "0", ".", "0", ".", "0">>
R_dbHost == <<"d", "b", ".", "e", "x", "a", "m", "p", "l", "e", ".", "c", "o", "m">>
R_dbName == <<"p", "r", "o", "d", "d", "b">>
R_1h == <<"1", "h">>
R_15m == <<"1", "5", "m">>
R_7d == <<"7", "d">>
R_prodSecret == <<"p", "r", "o", "d", "u", "c", "t", "i", "o", "n", "-", "s", "e", "c", "r", "e", "t", "-", "k", "e", "y", "-", "3", "2", "-", "c", "h", "a", "r", "a", "c", "t", "e", "r", "s", "-", "l", "o", "n", "g">>
R_refreshSecret == <<"r", "e", "f", "r", "e", "s", "h", "-", "s", "e", "c", "r", "e", "t", "-", "k", "e", "y", "-", "3", "2", "-", "c", "h", "a", "r", "a", "c", "t", "e", "r", "s", "-", "l", "o", "n", "g">>
R_5432 == <<"5", "4", "3", "2">>
R_dbuser == <<"d", "b", "u", "s", "e", "r">>
R_dbpass == <<"d", "b", "p", "a", "s", "s">>
R_issuer == <<"m", "y", "a", "p", "p", ".", "c", "o", "m">>
R_audience == <<"m", "y", "a", "p", "p", "-", "u", "s", "e", "r", "s">>
R_corsOrigins == <<"h", "t", "t", "p", "s", ":", "/", "/", "m", "y", "a", "p", "p", ".", "c", "o", "m", ",", "h", "t", "t", "p", "s", ":", "/", "/", "a", "d", "m", "i", "n", ".", "m", "y", "a", "p", "p", ".", "c", "o", "m">>
R_corsOriginsSpaced == <<"h", "t", "t", "p", "s", ":", "/", "/", "a", ".", "c", "o", "m", ",", " ", "h", "t", "t", "p", "s", ":", "/", "/", "b", ".", "c", "o", "m">>
R_corsOne == <<"h", "t", "t", "p", "s", ":", "/", "/", "a", ".", "c", "o", "m">>
R_corsMethods == <<"G", "E", "T", ",", "P", "O", "S", "T", ",", "P", "U", "T", ",", "D", "E", "L", "E", "T", "E">>
R_corsMethodsSpaced == <<"G", "E", "T", ",", " ", "P", "O", "S", "T">>
R_corsHeaders == <<"C", "o", "n", "t", "e", "n", "t", "-", "T", "y", "p", "e", ",", "A", "u", "t", "h", "o", "r", "i", "z", "a", "t", "i", "o", "n">>
R_900000 == <<"9", "0", "0", "0", "0", "0">>
R_100 == <<"1", "0", "0">>
R_apikey == <<"a", "p", "i", "k", "e", "y">>
R_sgKey == <<"s", "g", "-", "k", "e", "y">>
R_from == <<"n", "o", "r", "e", "p", "l", "y", "@", "m", "y", "a", "p", "p", ".", "c", "o", "m">>
R_smtpHost == <<"s", "m", "t", "p", ".", "e", "x", "a", "m", "p", "l", "e", ".", "c", "o", "m">>
R_587 == <<"5", "8", "7">>
R_appName == <<"F", "a", "s", "t", "K", "i", "t", " ", "A", "p", "p">>

\* a string of n characters
Secret(n) == [i \in 1..n |-> "k"]

\* an object literal from a set of <<key, string>> pairs
EnvOf(pairs) == [k \in {p[1] : p \in pairs} |-> Str((CHOOSE p \in pairs : p[1] = k)[2])]

EmptyEnv == EnvOf({})

\* validEnvVars of the test suite
validEnvVars ==
  EnvOf({<<"PORT", S_3000>>, <<"HOST", S_localhost>>, <<"NODE_ENV", S_test>>,
         <<"DATABASE_TYPE", S_mongodb>>, <<"DATABASE_URL", R_testDbUrl>>,
         <<"JWT_SECRET", R_testSecret>>, <<"JWT_EXPIRES_IN", R_1h>>,
         <<"JWT_ALGORITHM", S_HS256>>})

\* minimalEnv of the test suite: only the signing secret
minimalEnv == EnvOf({<<"JWT_SECRET", R_testSecret>>})

\* invalidEnv of the test suite: four invalid fields
invalidEnv ==
  EnvOf({<<"PORT", R_minus1>>, <<"NODE_ENV", R_invalidEnv>>,
         <<"DATABASE_TYPE", R_invalidDb>>, <<"JWT_SECRET", R_short>>})

\* complexEnv of the test suite
complexEnv ==
  EnvOf({<<"PORT", R_8080>>, <<"HOST", R_anyHost>>, <<"NODE_ENV", S_production>>,
         <<"DATABASE_TYPE", S_postgresql>>, <<"DATABASE_HOST", R_dbHost>>,
         <<"DATABASE_PORT", R_5432>>, <<"DATABASE_USERNAME", R_dbuser>>,
         <<"DATABASE_PASSWORD", R_dbpass>>, <<"DATABASE_NAME", R_dbName>>,
         <<"DATABASE_SSL", S_true>>, <<"JWT_SECRET", R_prodSecret>>,
         <<"JWT_EXPIRES_IN", R_15m>>, <<"JWT_REFRESH_SECRET", R_refreshSecret>>,
         <<"JWT_REFRESH_EXPIRES_IN", R_7d>>, <<"JWT_ALGORITHM", S_HS512>>,
         <<"JWT_ISSUER", R_issuer>>, <<"JWT_AUDIENCE", R_audience>>,
         <<"CORS_ORIGIN", R_corsOrigins>>, <<"CORS_METHODS", R_corsMethods>>,
         <<"CORS_ALLOWED_HEADERS", R_corsHeaders>>, <<"CORS_CREDENTIALS", S_true>>,
         <<"RATE_LIMIT_WINDOW_MS", R_900000>>, <<"RATE_LIMIT_MAX", R_100>>,
         <<"SECURITY_HELMET", S_true>>, <<"SECURITY_COMPRESSION", S_true>>,
         <<"SECURITY_MORGAN", S_false>>, <<"EMAIL_SERVICE", S_sendgrid>>,
         <<"EMAIL_USERNAME", R_apikey>>, <<"EMAIL_PASSWORD", R_sgKey>>,
         <<"EMAIL_FROM", R_from>>})

BaseEnvs == {EmptyEnv, minimalEnv, validEnvVars, invalidEnv, complexEnv}

\* the longest signing secret among the raw inputs
MaxSecretLen == 33

NumericRaw ==
  {<<>>, R_0, R_1, R_minus1, R_minus5, R_65535, R_65536, R_70000, R_8080, R_abc,
   R_3000abc, R_12dot5, R_0x1F}

BooleanRaw == {<<>>, S_true, S_false, R_TRUE, R_1, R_yes}

\* the raw values key k is given
RawValues(k) ==
  CASE k = "PORT" \/ k \in EnvOptionalNumberKeys -> NumericRaw
    [] k \in EnvBooleanKeys -> BooleanRaw
    [] k = "NODE_ENV" -> EnvironmentTypes \cup {<<>>, R_invalidEnv, R_Production}
    [] k = "DATABASE_TYPE" -> DatabaseTypes \cup {<<>>, R_invalidDb, R_MongoDB}
    [] k = "JWT_ALGORITHM" -> JWTAlgorithms \cup {<<>>, R_hs256, R_none}
    [] k = "EMAIL_SERVICE" -> EmailServices \cup {<<>>, R_Gmail, R_smtp}
    [] k = "JWT_SECRET" -> {Secret(n) : n \in 0..MaxSecretLen} \cup {R_testSecret}
    [] k = "HOST" -> {<<>>, S_localhost, R_anyHost}
    [] k = "JWT_EXPIRES_IN" -> {<<>>, S_24h, R_1h}
    [] k = "DATABASE_URL" -> {<<>>, R_testDbUrl}
    [] k = "DATABASE_HOST" -> {<<>>, R_dbHost}
    [] k = "DATABASE_NAME" -> {<<>>, R_dbName}
    [] k = "EMAIL_HOST" -> {<<>>, R_smtpHost}
    [] k = "CORS_ORIGIN" ->
         {<<>>, S_true, S_false, R_corsOne, R_corsOrigins, R_corsOriginsSpaced}
    [] k = "CORS_METHODS" -> {<<>>, S_GET, R_corsMethods, R_corsMethodsSpaced}
    [] k = "CORS_ALLOWED_HEADERS" -> {<<>>, R_corsHeaders}
    [] k \in {"APP_NAME", "CUSTOM_DEBUG", "API_VERSION", "MAX_FILE_SIZE"} -> {R_appName}
    [] OTHER -> {R_apikey}

\* the keys a raw input may hold
RawKeys == Range(EnvKeys) \cup {"APP_NAME", "CUSTOM_DEBUG", "API_VERSION", "MAX_FILE_SIZE"}

\* env with env[k] = v
SetKey(env, k, v) == [x \in DOMAIN env \cup {k} |-> IF x = k THEN Str(v) ELSE env[x]]

\* env without the key k
DeleteKey(env, k) == [x \in DOMAIN env \ {k} |-> env[x]]

\* env with each key of the set ks given one of its raw values or left out
RECURSIVE Variants(_, _)
Variants(env, ks) ==
  IF ks = {} THEN {env}
  ELSE LET k == CHOOSE x \in ks : TRUE
           rest == Variants(DeleteKey(env, k), ks \ {k})
       IN rest \cup {SetKey(e, k, v) : <<e, v>> \in rest \X RawValues(k)}

\* the keys of the database completeness rule, and of the mail one
DatabaseRuleKeys == {"DATABASE_TYPE", "DATABASE_URL", "DATABASE_HOST", "DATABASE_NAME"}

MailRuleKeys == {"EMAIL_SERVICE", "EMAIL_HOST", "EMAIL_PORT"}

\* keys outside the schema: two with a prefix of the custom section, one without
CustomRuleKeys == {"APP_NAME", "CUSTOM_DEBUG", "API_VERSION"}

\* each fixture, each fixture with one key set to a raw value or removed, and
\* the valid fixture with every combination of the keys of a cross-field rule
\* or of the keys outside the schema, and with a key whose value is undefined
RawInputs ==
  BaseEnvs
  \cup {SetKey(b, k, v) : <<b, k, v>> \in
          UNION {{<<b, k, v>> : v \in RawValues(k)} : <<b, k>> \in BaseEnvs \X RawKeys}}
  \cup {DeleteKey(b, k) : <<b, k>> \in BaseEnvs \X RawKeys}
  \cup Variants(validEnvVars, DatabaseRuleKeys)
  \cup Variants(validEnvVars, MailRuleKeys)
  \cup Variants(validEnvVars, CustomRuleKeys)
  \cup {[x \in DOMAIN validEnvVars \cup {"APP_NAME"} |->
           IF x = "APP_NAME" THEN Undef ELSE validEnvVars[x]]}

\* ------------------------------------------------------------------------
\* FastKitConfig instances and the startup script
\* ------------------------------------------------------------------------

S_dotEnv == <<".", "e", "n", "v">>

R_dotEnvTest == <<".", "e", "n", "v", ".", "t", "e", "s", "t">>

\* the values given as envPath to the constructor and to fromEnv
EnvPaths == {Undef, Str(R_dotEnvTest)}

\* { ...x }: the own properties of x, none when x is undefined
Spread(x) == IF x.t = "object" THEN x ELSE Obj(<<>>)

\* new FastKitConfig(envPath): only envFilePath is assigned, the field config
\* is declared without a value
FastKitConfig_constructor(envPath) ==
  Obj([envFilePath |-> IF Truthy(envPath) THEN envPath ELSE Str(S_dotEnv),
       config |-> Undef])

\* FastKitConfig.fromEnv(envPath)
FastKitConfig_fromEnv(envPath) == FastKitConfig_constructor(envPath)

\* getConfig()
FastKitConfig_getConfig(this) == Spread(this.v.config)

\* { ...a, ...b }
Merged(a, b) ==
  Obj([k \in DOMAIN Spread(a).v \cup DOMAIN Spread(b).v |->
         IF k \in DOMAIN Spread(b).v THEN Spread(b).v[k] ELSE Spread(a).v[k]])

\* envValidate(): this.config = validateEnvData(EnvConstants).config
FastKitConfig_envValidate(this, constants) ==
  Obj([envFilePath |-> this.v.envFilePath, config |-> validateEnvData(constants).config])

\* updateConfig(newConfig): the merge, then envValidate()
FastKitConfig_updateConfig(this, newConfig, constants) ==
  FastKitConfig_envValidate(
    Obj([envFilePath |-> this.v.envFilePath, config |-> Merged(this.v.config, newConfig)]),
    constants)

\* the partial configurations of the update tests, and the whole
\* configuration of the test of validateConfig
updates ==
  Obj([server |-> Obj([port |-> Num(8080), host |-> Str(R_anyHost),
                       environment |-> Str(S_production)])])

invalidUpdates ==
  Obj([server |-> Obj([port |-> Num(0 - 1), host |-> Str(S_localhost),
                       environment |-> Str(S_test)])])

validConfig ==
  Obj([server |-> Obj([port |-> Num(3000), host |-> Str(S_localhost),
                       environment |-> Str(S_test)]),
       database |-> Obj([type |-> Str(S_mongodb), url |-> Str(R_testDbUrl)]),
       jwt |-> Obj([secret |-> Str(R_testSecret), algorithm |-> Str(S_HS256)])])

Updates == {updates, invalidUpdates, validConfig}

\* console.log(text): one entry of what the process has written
Line(text) == [kind |-> "line", text |-> text]

\* the entries the startup script writes once validateEnv() has returned
ReportLines(configResult) ==
  (IF configResult.isValid THEN <<Line("Configuration loaded successfully!")>> ELSE <<>>)
  \o <<[kind |-> "value", name |-> "EnvConstants"]>>
  \o (IF ~configResult.isValid
      THEN <<Line("Generating sample .env file..."),
             Line("Sample .env.example file created.")>>
      ELSE <<>>)

\* ------------------------------------------------------------------------
\* The scaffolding commands of FastKit_Config and the task list
\* ------------------------------------------------------------------------

\* path.join(path.resolve(), 'src', 'FastKit'), and the other paths of the
\* commands, relative to the working directory
FilePath == "src/FastKit"

scriptDirPath == "src/FastKit/script"

myScriptPath == "src/script"

apiDirPath == "src/FastKit/api"

exampleFilePath == ".env.FastKit.example"

envFilePath == ".env.FastKit"

sourceScriptPath == "src/script/keyGen.ts"

targetScriptPath == "src/FastKit/script/keyGen.ts"

\* the directory a path lies in, for the paths below src
Parent(p) ==
  CASE p \in {scriptDirPath, apiDirPath} -> FilePath
    [] p = sourceScriptPath -> myScriptPath
    [] p = targetScriptPath -> scriptDirPath
    [] OTHER -> "src"

\* fs.existsSync(p)
existsSync(fs, p) == p \in fs.dirs \/ p \in DOMAIN fs.files

\* fs.mkdirSync(p, { recursive: true })
mkdirSync(fs, p) ==
  [dirs |-> fs.dirs \cup {p} \cup (IF Parent(p) = "src" THEN {} ELSE {Parent(p)}),
   files |-> fs.files]

\* fs.readFileSync(p, 'utf-8')
readFileSync(fs, p) == fs.files[p]

\* fs.writeFileSync(p, content)
writeFileSync(fs, p, content) ==
  [dirs |-> fs.dirs,
   files |-> [x \in DOMAIN fs.files \cup {p} |-> IF x = p THEN content ELSE fs.files[x]]]

\* a command that returned, and one that threw
Returned(fs) == [fs |-> fs, threw |-> FALSE]

Threw(fs) == [fs |-> fs, threw |-> TRUE]

createFastKitDirectory(fs) ==
  IF ~existsSync(fs, FilePath) THEN Returned(mkdirSync(fs, FilePath)) ELSE Returned(fs)

createEnvironmentFile(fs) ==
  IF ~existsSync(fs, exampleFilePath) THEN Returned(fs)
  ELSE IF existsSync(fs, envFilePath) THEN Returned(fs)
  ELSE Returned(writeFileSync(fs, envFilePath, readFileSync(fs, exampleFilePath)))

\* the script directory once it is there, then the copy of keyGen.ts
createScriptDirectory(fs) ==
  LET made == IF ~existsSync(fs, scriptDirPath) THEN mkdirSync(fs, scriptDirPath) ELSE fs
  IN IF ~existsSync(fs, myScriptPath) THEN Threw(fs)
     ELSE IF ~existsSync(made, sourceScriptPath) THEN Returned(made)
     ELSE Returned(writeFileSync(made, targetScriptPath,
                                 readFileSync(made, sourceScriptPath)))

createApiDirectory(fs) ==
  IF ~existsSync(fs, apiDirPath) THEN Returned(mkdirSync(fs, apiDirPath)) ELSE Returned(fs)

\* the titles of the tasks, in the order of the list
TaskTitles ==
  <<"Create FastKit directory", "Create FastKit environment file",
    "Create FastKit Script Directory with Script files", "Create Api Directory",
    "Finalizing">>

\* what a file holds: the text shipped with FastKit, or the operator's edit
FileContents == {"shipped", "edited"}

\* the working directories the task list is run in: every set of the
\* directories and files above in which each one lies in a directory
Disks ==
  {fs \in [dirs : SUBSET {FilePath, scriptDirPath, apiDirPath, myScriptPath},
           files : UNION {[fl -> FileContents] :
                            fl \in SUBSET {exampleFilePath, envFilePath,
                                           sourceScriptPath, targetScriptPath}}] :
     /\ \A d \in fs.dirs : Parent(d) = "src" \/ Parent(d) \in fs.dirs
     /\ \A f \in DOMAIN fs.files \cap {sourceScriptPath, targetScriptPath} :
          Parent(f) \in fs.dirs}

\* the checkout of the repository: src/script without keyGen.ts
RepositoryDisk == [dirs |-> {myScriptPath}, files |-> <<>>]

\* how many times the task list is run
MaxRuns == 2

\* the task list before tasks.run(), and once run() was called
NotRun == [status |-> "idle", next |-> 1, runs |-> 0, reports |-> <<>>]

Started(l) == [status |-> "running", next |-> 1, runs |-> l.runs + 1, reports |-> <<>>]

\* the task list after its task at l.next ran with outcome out: a rejected
\* task is reported as failed and ends the run
Reported(l, out) ==
  [status |-> IF out.threw THEN "failed"
              ELSE IF l.next = Len(TaskTitles) THEN "completed" ELSE "running",
   next |-> l.next + 1,
   runs |-> l.runs,
   reports |-> Append(l.reports,
                      [title |-> TaskTitles[l.next],
                       state |-> IF out.threw THEN "failed" ELSE "succeeded"])]

\* ------------------------------------------------------------------------
\* State
\* ------------------------------------------------------------------------

\* process.env (the raw input map, key -> string), the frozen object exported
\* by env.constant.ts once imported, the last call made with what it
\* returned, the FastKitConfig instance once one is constructed, and the
\* startup script: its position, the result it got from validateEnv(), the
\* lines it has written and its exit status once it has exited
VARIABLES processEnv, EnvConstants, result, instance, startup, fileSystem, listr

vars == <<processEnv, EnvConstants, result, instance, startup, fileSystem, listr>>

NoCall == [call |-> "none", out |-> Undef]

NotStarted == [pc |-> "start", configResult |-> Undef, log |-> <<>>, exitCode |-> Undef]

Init ==
  /\ processEnv \in RawInputs
  /\ EnvConstants = Undef
  /\ result = NoCall
  /\ instance = Undef
  /\ startup = NotStarted
  /\ fileSystem = RepositoryDisk
  /\ listr = NotRun

\* the module env.constant.ts is evaluated: EnvConstants is built and frozen
ImportEnvConstants ==
  /\ EnvConstants = Undef
  /\ EnvConstants' = Obj(envConstants(processEnv))
  /\ UNCHANGED <<processEnv, result, instance, startup, fileSystem, listr>>

\* variant: the call reads the imported EnvConstants in place of its argument
CallValidateEnvDataStateful ==
  /\ startup.pc = "start"
  /\ result' = [call |-> "validateEnvData",
                out |-> validateEnvData(IF EnvConstants = Undef
                                        THEN processEnv ELSE EnvConstants.v)]
  /\ UNCHANGED <<processEnv, EnvConstants, instance, startup, fileSystem, listr>>

\* validateEnvData() on the raw process environment
CallValidateEnvData ==
  /\ startup.pc = "start"
  /\ result' = [call |-> "validateEnvData", out |-> validateEnvData(processEnv)]
  /\ UNCHANGED <<processEnv, EnvConstants, instance, startup, fileSystem, listr>>

\* FastKitConfig.validateEnv(): validation of the typed EnvConstants
CallValidateEnv ==
  /\ startup.pc = "start"
  /\ EnvConstants # Undef
  /\ result' = [call |-> "validateEnv", out |-> FastKitConfig_validateEnv(EnvConstants.v)]
  /\ UNCHANGED <<processEnv, EnvConstants, instance, startup, fileSystem, listr>>

\* new FastKitConfig(envPath): the constructor returns normally
NewFastKitConfig ==
  /\ startup.pc = "start"
  /\ EnvConstants # Undef
  /\ \E envPath \in EnvPaths :
       /\ instance' = FastKitConfig_constructor(envPath)
       /\ result' = [call |-> "new FastKitConfig", out |-> [t |-> "returned"]]
  /\ UNCHANGED <<processEnv, EnvConstants, startup, fileSystem, listr>>

\* FastKitConfig.fromEnv(envPath)
CallFromEnv ==
  /\ startup.pc = "start"
  /\ EnvConstants # Undef
  /\ \E envPath \in EnvPaths :
       /\ instance' = FastKitConfig_fromEnv(envPath)
       /\ result' = [call |-> "fromEnv", out |-> [t |-> "returned"]]
  /\ UNCHANGED <<processEnv, EnvConstants, startup, fileSystem, listr>>

\* getConfig() on the instance
CallGetConfig ==
  /\ startup.pc = "start"
  /\ instance # Undef
  /\ result' = [call |-> "getConfig", out |-> FastKitConfig_getConfig(instance)]
  /\ UNCHANGED <<processEnv, EnvConstants, instance, startup, fileSystem, listr>>

\* updateConfig(newConfig) on the instance
CallUpdateConfig ==
  /\ startup.pc = "start"
  /\ instance # Undef
  /\ \E newConfig \in Updates :
       /\ instance' = FastKitConfig_updateConfig(instance, newConfig, EnvConstants.v)
       /\ result' = [call |-> "updateConfig", arg |-> newConfig, out |-> [t |-> "returned"]]
  /\ UNCHANGED <<processEnv, EnvConstants, startup, fileSystem, listr>>

\* the startup script, in a process that made no other call: its imports
\* are evaluated, then it calls FastKitConfig.validateEnv()
ScriptValidate ==
  /\ startup.pc = "start"
  /\ EnvConstants # Undef
  /\ result = NoCall
  /\ instance = Undef
  /\ startup' = [pc |-> "validated",
                 configResult |-> FastKitConfig_validateEnv(EnvConstants.v),
                 log |-> <<Line("FastKit Type-Safe Configuration System")>>,
                 exitCode |-> Undef]
  /\ UNCHANGED <<processEnv, EnvConstants, result, instance, fileSystem, listr>>

\* the script writes its messages about the result
ScriptReport ==
  /\ startup.pc = "validated"
  /\ startup' = [pc |-> "reported",
                 configResult |-> startup.configResult,
                 log |-> startup.log \o ReportLines(startup.configResult),
                 exitCode |-> startup.exitCode]
  /\ UNCHANGED <<processEnv, EnvConstants, result, instance, fileSystem, listr>>

\* the script writes the CLI banner and the welcome box
ScriptBanner ==
  /\ startup.pc = "reported"
  /\ startup' = [pc |-> "banner",
                 configResult |-> startup.configResult,
                 log |-> startup.log \o <<Line("FastKit CLI"), Line("Welcome to FastKit")>>,
                 exitCode |-> startup.exitCode]
  /\ UNCHANGED <<processEnv, EnvConstants, result, instance, fileSystem, listr>>

\* main(): tasks.run()
ScriptMain ==
  /\ startup.pc = "banner"
  /\ listr.status = "idle"
  /\ startup' = [pc |-> "tasks",
                 configResult |-> startup.configResult,
                 log |-> startup.log,
                 exitCode |-> startup.exitCode]
  /\ listr' = Started(listr)
  /\ UNCHANGED <<processEnv, EnvConstants, result, instance, fileSystem>>

\* tasks.run() called on the exported task list
TasksRun ==
  /\ listr.status # "running"
  /\ listr.runs < MaxRuns
  /\ listr' = Started(listr)
  /\ UNCHANGED <<processEnv, EnvConstants, result, instance, startup, fileSystem>>

\* the task 'Create FastKit directory'
TaskCreateFastKitDirectory ==
  /\ listr.status = "running" /\ listr.next = 1
  /\ fileSystem' = createFastKitDirectory(fileSystem).fs
  /\ listr' = Reported(listr, createFastKitDirectory(fileSystem))
  /\ UNCHANGED <<processEnv, EnvConstants, result, instance, startup>>

\* the task 'Create FastKit environment file'
TaskCreateEnvironmentFile ==
  /\ listr.status = "running" /\ listr.next = 2
  /\ fileSystem' = createEnvironmentFile(fileSystem).fs
  /\ listr' = Reported(listr, createEnvironmentFile(fileSystem))
  /\ UNCHANGED <<processEnv, EnvConstants, result, instance, startup>>

\* the task 'Create FastKit Script Directory with Script files'
TaskCreateScriptDirectory ==
  /\ listr.status = "running" /\ listr.next = 3
  /\ fileSystem' = createScriptDirectory(fileSystem).fs
  /\ listr' = Reported(listr, createScriptDirectory(fileSystem))
  /\ UNCHANGED <<processEnv, EnvConstants, result, instance, startup>>

\* the task 'Create Api Directory'
TaskCreateApiDirectory ==
  /\ listr.status = "running" /\ listr.next = 4
  /\ fileSystem' = createApiDirectory(fileSystem).fs
  /\ listr' = Reported(listr, createApiDirectory(fileSystem))
  /\ UNCHANGED <<processEnv, EnvConstants, result, instance, startup>>

\* the task 'Finalizing'
TaskFinalizing ==
  /\ listr.status = "running" /\ listr.next = 5
  /\ listr' = Reported(listr, Returned(fileSystem))
  /\ UNCHANGED <<processEnv, EnvConstants, result, instance, startup, fileSystem>>

\* validation alone, over every raw input
Next ==
  \/ ImportEnvConstants
  \/ CallValidateEnvData
  \/ CallValidateEnv

Spec == Init /\ [][Next]_vars

LifecycleKeys == {"PORT", "NODE_ENV", "DATABASE_TYPE", "JWT_SECRET"}

\* the environments a FastKitConfig is constructed over and the startup
\* script is run in: each fixture, and the valid fixture with one of the
\* keys above set to one of its raw values
LifecycleInputs ==
  BaseEnvs
  \cup UNION {{SetKey(validEnvVars, k, v) : v \in RawValues(k)} : k \in LifecycleKeys}

LifecycleInit ==
  /\ processEnv \in LifecycleInputs
  /\ EnvConstants = Undef
  /\ result = NoCall
  /\ instance = Undef
  /\ startup = NotStarted
  /\ fileSystem = RepositoryDisk
  /\ listr = NotRun

\* FastKitConfig.validateEnv(), FastKitConfig instances and the startup
\* script
LifecycleNext ==
  \/ ImportEnvConstants
  \/ CallValidateEnv
  \/ NewFastKitConfig
  \/ CallFromEnv
  \/ CallGetConfig
  \/ CallUpdateConfig
  \/ ScriptValidate
  \/ ScriptReport
  \/ ScriptBanner
  \/ ScriptMain
  \/ TaskCreateFastKitDirectory
  \/ TaskCreateEnvironmentFile
  \/ TaskCreateScriptDirectory
  \/ TaskCreateApiDirectory
  \/ TaskFinalizing

LifecycleSpec == LifecycleInit /\ [][LifecycleNext]_vars

\* ------------------------------------------------------------------------
\* validateConfig called directly on a nested configuration
\* ------------------------------------------------------------------------

\* the object obj with obj[k] = v
WithField(obj, k, v) == Obj([x \in DOMAIN obj.v \cup {k} |-> IF x = k THEN v ELSE obj.v[x]])

\* the object obj without its key k
WithoutField(obj, k) == Obj([x \in DOMAIN obj.v \ {k} |-> obj.v[x]])

\* the configuration composed from env, as a caller would write it by hand
HandWritten(env) == composeConfig(envVarsSchema(env).value.v, env)

\* the configurations validateConfig is called with: the one composed from
\* env; that one without server.host, jwt.expiresIn and jwt.algorithm, as
\* in the test of validateConfig; that one with a key the schema does not
\* know, at the top and in the server section; and that one with port 0
ConfigInputs(env) ==
  LET c == HandWritten(env)
  IN {c,
      WithField(WithField(c, "server", WithoutField(c.v.server, "host")),
                "jwt", WithoutField(WithoutField(c.v.jwt, "expiresIn"), "algorithm")),
      WithField(WithField(c, "server", WithField(c.v.server, "extra", Bool(TRUE))),
                "extra", Str(S_true)),
      WithField(c, "server", WithField(c.v.server, "port", Num(0)))}

\* validateConfig(config)
CallValidateConfig ==
  /\ result = NoCall
  /\ envVarsSchema(processEnv).issues = <<>>
  /\ \E config \in ConfigInputs(processEnv) :
       result' = [call |-> "validateConfig", arg |-> config, out |-> validateConfig(config)]
  /\ UNCHANGED <<processEnv, EnvConstants, instance, startup, fileSystem, listr>>

ConfigNext == CallValidateConfig

ConfigSpec == Init /\ [][ConfigNext]_vars

\* ------------------------------------------------------------------------
\* The task list run on its own, over every working directory
\* ------------------------------------------------------------------------

ScaffoldInit ==
  /\ processEnv = EmptyEnv
  /\ EnvConstants = Undef
  /\ result = NoCall
  /\ instance = Undef
  /\ startup = NotStarted
  /\ fileSystem \in Disks
  /\ listr = NotRun

ScaffoldNext ==
  \/ TasksRun
  \/ TaskCreateFastKitDirectory
  \/ TaskCreateEnvironmentFile
  \/ TaskCreateScriptDirectory
  \/ TaskCreateApiDirectory
  \/ TaskFinalizing

ScaffoldSpec == ScaffoldInit /\ [][ScaffoldNext]_vars

\* ------------------------------------------------------------------------
\* Vocabulary of the properties
\* ------------------------------------------------------------------------

\* the last call was validateEnvData on the raw environment
CalledValidateEnvData == result.call = "validateEnvData"

\* the raw value of key k
Raw(k) == Get(processEnv, k)

IsPresent(k) == k \in DOMAIN processEnv

\* where composeConfig puts the flat key k: <<section, leaf>>
ConfigPath(k) ==
  CASE k = "PORT" -> <<"server", "port">>
    [] k = "HOST" -> <<"server", "host">>
    [] k = "NODE_ENV" -> <<"server", "environment">>
    [] k = "ENVIRONMENT" -> <<"server", "nodeEnv">>
    [] k = "SERVER_TIMEOUT" -> <<"server", "timeout">>
    [] k = "SERVER_KEEP_ALIVE" -> <<"server", "keepAlive">>
    [] k = "SERVER_BODY_LIMIT" -> <<"server", "bodyLimit">>
    [] k = "SERVER_TRUST_PROXY" -> <<"server", "trustProxy">>
    [] k = "DATABASE_TYPE" -> <<"database", "type">>
    [] k = "DATABASE_URL" -> <<"database", "url">>
    [] k = "DATABASE_HOST" -> <<"database", "host">>
    [] k = "DATABASE_PORT" -> <<"database", "port">>
    [] k = "DATABASE_USERNAME" -> <<"database", "username">>
    [] k = "DATABASE_PASSWORD" -> <<"database", "password">>
    [] k = "DATABASE_NAME" -> <<"database", "databaseName">>
    [] k = "DATABASE_POOL_SIZE" -> <<"database", "poolSize">>
    [] k = "DATABASE_CONNECTION_TIMEOUT" -> <<"database", "connectionTimeout">>
    [] k = "DATABASE_SSL" -> <<"database", "ssl">>
    [] k = "JWT_SECRET" -> <<"jwt", "secret">>
    [] k = "JWT_EXPIRES_IN" -> <<"jwt", "expiresIn">>
    [] k = "JWT_REFRESH_SECRET" -> <<"jwt", "refreshSecret">>
    [] k = "JWT_REFRESH_EXPIRES_IN" -> <<"jwt", "refreshExpiresIn">>
    [] k = "JWT_ALGORITHM" -> <<"jwt", "algorithm">>
    [] k = "JWT_ISSUER" -> <<"jwt", "issuer">>
    [] k = "JWT_AUDIENCE" -> <<"jwt", "audience">>
    [] k = "JWT_SUBJECT" -> <<"jwt", "subject">>
    [] k = "CORS_ORIGIN" -> <<"cors", "origin">>
    [] k = "CORS_METHODS" -> <<"cors", "methods">>
    [] k = "CORS_ALLOWED_HEADERS" -> <<"cors", "allowedHeaders">>
    [] k = "CORS_CREDENTIALS" -> <<"cors", "credentials">>
    [] k = "CORS_MAX_AGE" -> <<"cors", "maxAge">>
    [] k = "RATE_LIMIT_WINDOW_MS" -> <<"security", "rateLimitWindowMs">>
    [] k = "RATE_LIMIT_MAX" -> <<"security", "rateLimitMax">>
    [] k = "SECURITY_HELMET" -> <<"security", "helmet">>
    [] k = "SECURITY_COMPRESSION" -> <<"security", "compression">>
    [] k = "SECURITY_MORGAN" -> <<"security", "morgan">>
    [] k = "SECURITY_CSRF" -> <<"security", "csrf">>
    [] k = "EMAIL_SERVICE" -> <<"email", "service">>
    [] k = "EMAIL_HOST" -> <<"email", "host">>
    [] k = "EMAIL_PORT" -> <<"email", "port">>
    [] k = "EMAIL_SECURE" -> <<"email", "secure">>
    [] k = "EMAIL_USERNAME" -> <<"email", "username">>
    [] k = "EMAIL_PASSWORD" -> <<"email", "password">>
    [] k = "EMAIL_FROM" -> <<"email", "from">>

\* out lists an error whose path is one of paths
ErrorAt(out, paths) == \E i \in 1..Len(out.errors) : out.errors[i].path \in paths

\* out lists an error for the flat key k, under its flat or its nested path
ErrorFor(out, k) == ErrorAt(out, {<<k>>, ConfigPath(k)})

\* out lists the error with this path and this message
ErrorWith(out, path, message) ==
  \E i \in 1..Len(out.errors) :
    out.errors[i].path = path /\ out.errors[i].message = message

\* the section of the configuration of a valid result
Section(out, name) == out.config.v[name]

HasSection(out, name) == Section(out, name).t # "undefined"

\* the leaf of the configuration of a valid result that holds the flat key k
Leaf(out, k) == Section(out, ConfigPath(k)[1]).v[ConfigPath(k)[2]]

\* the validated flat field k of a valid result
EnvVar(out, k) == out.envVars.v[k]

DecimalDigits == {"0", "1", "2", "3", "4", "5", "6", "7", "8", "9"}

AllDigits(s) == s # <<>> /\ \A i \in 1..Len(s) : s[i] \in DecimalDigits

\* the whole string is a base-10 integer: an optional minus sign, then digits
IsDecimalInteger(s) ==
  s # <<>> /\ AllDigits(IF Head(s) = "-" THEN Tail(s) ELSE s)

RECURSIVE DigitsValue(_)
DigitsValue(s) ==
  IF s = <<>> THEN 0
  ELSE 10 * DigitsValue(SubSeq(s, 1, Len(s) - 1))
       + (CHOOSE d \in 0..9 : ToString(d) = s[Len(s)])

\* the integer a base-10 integer string denotes
DecimalValue(s) == IF Head(s) = "-" THEN 0 - DigitsValue(Tail(s)) ELSE DigitsValue(s)

\* the input is accepted once key k is left out
ValidWithout(k) == validateEnvData(DeleteKey(processEnv, k)).isValid

\* the input is accepted once key k holds the raw value v
ValidWith(k, v) == validateEnvData(SetKey(processEnv, k, v)).isValid

\* ------------------------------------------------------------------------
\* Properties
\* ------------------------------------------------------------------------

\* C1: validateEnvData on an input holding only a JWT_SECRET of at least 32
\* characters returns a valid result with server.port = 3000, server.host =
\* 'localhost', server.environment = 'development', database.type =
\* 'mongodb' and no cors, security or email section.
C1_SecretOnlyGivesDefaults ==
  (/\ CalledValidateEnvData
   /\ DOMAIN processEnv = {"JWT_SECRET"}
   /\ Len(Raw("JWT_SECRET").v) >= JwtSecretMinLength)
  => /\ result.out.isValid
     /\ Leaf(result.out, "PORT") = Num(3000)
     /\ Leaf(result.out, "HOST") = Str(S_localhost)
     /\ Leaf(result.out, "NODE_ENV") = Str(S_development)
     /\ Leaf(result.out, "DATABASE_TYPE") = Str(S_mongodb)
     /\ ~HasSection(result.out, "cors")
     /\ ~HasSection(result.out, "security")
     /\ ~HasSection(result.out, "email")

\* the keys whose own schema can reject a raw value
ConstrainedKeys ==
  {"PORT", "NODE_ENV", "DATABASE_TYPE", "JWT_SECRET", "JWT_ALGORITHM"}
  \cup EnvOptionalNumberKeys

\* the raw value v of key k is rejected when it is put, alone, into the
\* valid fixture
IndividuallyInvalid(k, v) == ~validateEnvData(SetKey(validEnvVars, k, v)).isValid

\* C2: validation does not fail fast: the input with PORT = '-1', NODE_ENV =
\* 'invalid-env', DATABASE_TYPE = 'invalid-db' and a short JWT_SECRET is
\* invalid with an error for each of the four fields, and in general every
\* individually invalid field of an input has its own error in the result.
C2_EveryInvalidFieldReported ==
  CalledValidateEnvData
  => /\ processEnv = invalidEnv
        => /\ ~result.out.isValid
           /\ Len(result.out.errors) >= 4
           /\ \A k \in {"PORT", "NODE_ENV", "DATABASE_TYPE", "JWT_SECRET"} :
                ErrorFor(result.out, k)
     /\ \A k \in ConstrainedKeys \cap DOMAIN processEnv :
          IndividuallyInvalid(k, Raw(k).v) => ErrorFor(result.out, k)

\* the raw input violates the mail completeness rule
MailRuleViolated ==
  /\ StrEq(Raw("EMAIL_SERVICE"), S_custom)
  /\ ~Truthy(Raw("EMAIL_HOST")) \/ ~Truthy(Raw("EMAIL_PORT"))

\* the raw input violates the database completeness rule
DatabaseRuleViolated ==
  /\ Raw("DATABASE_TYPE").t = "string"
  /\ Raw("DATABASE_TYPE").v \in DatabaseTypes \ {S_mongodb}
  /\ ~Truthy(Raw("DATABASE_URL"))
  /\ ~Truthy(Raw("DATABASE_HOST")) \/ ~Truthy(Raw("DATABASE_NAME"))

\* C3: when an input has a field-level error (JWT_SECRET, PORT, NODE_ENV)
\* and violates a cross-field rule, the one invalid result lists the
\* field-level errors and every violated cross-field rule together.
C3_FieldAndCrossFieldErrorsTogether ==
  (/\ CalledValidateEnvData
   /\ \E k \in {"JWT_SECRET", "PORT", "NODE_ENV"} :
        IsPresent(k) /\ IndividuallyInvalid(k, Raw(k).v))
  => /\ ~result.out.isValid
     /\ \A k \in {"JWT_SECRET", "PORT", "NODE_ENV"} :
          IsPresent(k) /\ IndividuallyInvalid(k, Raw(k).v) => ErrorFor(result.out, k)
     /\ MailRuleViolated => ErrorWith(result.out, <<"email", "host">>, EmailMessage)
     /\ DatabaseRuleViolated
        => \/ ErrorWith(result.out, <<"DATABASE_URL">>, EnvDatabaseMessage)
           \/ ErrorWith(result.out, <<"database", "url">>, DatabaseMessage)

\* C4: on an otherwise valid input, an absent JWT_SECRET gives an invalid
\* result with an error on JWT_SECRET, a JWT_SECRET of 1 to 31 characters
\* gives an invalid result with the 'at least 32 characters' error, and a
\* JWT_SECRET of exactly 32 characters gives a valid result whose jwt.secret
\* is the input string.
C4_SecretBoundary ==
  (CalledValidateEnvData /\ ValidWith("JWT_SECRET", R_testSecret))
  => /\ ~IsPresent("JWT_SECRET")
        => ~result.out.isValid /\ ErrorAt(result.out, {<<"JWT_SECRET">>})
     /\ IsPresent("JWT_SECRET") /\ Len(Raw("JWT_SECRET").v) \in 1..(JwtSecretMinLength - 1)
        => /\ ~result.out.isValid
           /\ ErrorWith(result.out, <<"JWT_SECRET">>, JwtSecretMessage)
     /\ IsPresent("JWT_SECRET") /\ Len(Raw("JWT_SECRET").v) = JwtSecretMinLength
        => result.out.isValid /\ Leaf(result.out, "JWT_SECRET") = Raw("JWT_SECRET")

\* a secret of exactly 32 characters has been validated and accepted
C4_Witness ==
  /\ CalledValidateEnvData
  /\ IsPresent("JWT_SECRET")
  /\ Len(Raw("JWT_SECRET").v) = JwtSecretMinLength
  /\ result.out.isValid
  /\ Leaf(result.out, "JWT_SECRET") = Raw("JWT_SECRET")

\* C5: no default stands in for an absent signing secret: with JWT_SECRET
\* absent from the process environment, EnvConstants carries no JWT_SECRET
\* and FastKitConfig.validateEnv() reports the secret as invalid or missing.
C5_NoDefaultForAbsentSecret ==
  (EnvConstants # Undef /\ ~IsPresent("JWT_SECRET"))
  => /\ Get(EnvConstants.v, "JWT_SECRET").t = "undefined"
     /\ result.call = "validateEnv"
        => /\ ~result.out.isValid
           /\ ErrorAt(result.out, {<<"JWT_SECRET">>, <<"jwt", "secret">>})

NumericKeys == {"PORT"} \cup EnvOptionalNumberKeys

\* C6: a numeric field is accepted only when the whole raw string is a
\* base-10 integer: on an otherwise valid input, a value such as '3000abc',
\* '12.5' or '0x1F' gives an invalid result with an error on that field.
C6_StrictNumericParse ==
  CalledValidateEnvData
  => \A k \in NumericKeys \cap DOMAIN processEnv :
       (ValidWithout(k) /\ Raw(k).v # <<>> /\ ~IsDecimalInteger(Raw(k).v))
       => ~result.out.isValid /\ ErrorFor(result.out, k)

\* C7: a boolean field coerces to true exactly when its raw value is the
\* string 'true'; 'TRUE', '1', 'yes', the empty string and absence coerce to
\* false, and none of them produces an error.
C7_BooleanCoercion ==
  /\ CalledValidateEnvData
     => \A k \in EnvBooleanKeys :
          /\ ~ErrorFor(result.out, k)
          /\ result.out.isValid
             => /\ EnvVar(result.out, k) = Bool(StrEq(Raw(k), S_true))
                /\ HasSection(result.out, ConfigPath(k)[1])
                   => Leaf(result.out, k) = Bool(StrEq(Raw(k), S_true))
  /\ EnvConstants # Undef
     => \A k \in EnvBooleanKeys \cap DOMAIN EnvConstants.v :
          EnvConstants.v[k] = Bool(StrEq(Raw(k), S_true))

\* a boolean field given 'TRUE' has been validated and coerced to false
C7_Witness ==
  /\ CalledValidateEnvData
  /\ result.out.isValid
  /\ \E k \in EnvBooleanKeys :
       StrEq(Raw(k), R_TRUE) /\ EnvVar(result.out, k) = Bool(FALSE)

DefaultedKeys ==
  {"PORT", "HOST", "NODE_ENV", "DATABASE_TYPE", "JWT_EXPIRES_IN", "JWT_ALGORITHM"}

\* the declared default of a defaulted key, as coerced
DeclaredDefault(k) ==
  CASE k = "PORT" -> Num(3000)
    [] k = "HOST" -> Str(S_localhost)
    [] k = "NODE_ENV" -> Str(S_development)
    [] k = "DATABASE_TYPE" -> Str(S_mongodb)
    [] k = "JWT_EXPIRES_IN" -> Str(S_24h)
    [] k = "JWT_ALGORITHM" -> Str(S_HS256)

\* C8: a field with a declared default coerces to exactly that default when
\* it is absent and never yields an error then; a present value is never
\* replaced by the default.
C8_Defaults ==
  CalledValidateEnvData
  => \A k \in DefaultedKeys :
       /\ ~IsPresent(k)
          => /\ ~ErrorFor(result.out, k)
             /\ result.out.isValid
                => /\ EnvVar(result.out, k) = DeclaredDefault(k)
                   /\ Leaf(result.out, k) = DeclaredDefault(k)
       /\ IsPresent(k) /\ result.out.isValid /\ k # "PORT"
          => EnvVar(result.out, k) = Raw(k) /\ Leaf(result.out, k) = Raw(k)
       /\ IsPresent(k) /\ result.out.isValid /\ k = "PORT" /\ IsDecimalInteger(Raw(k).v)
          => /\ EnvVar(result.out, k) = Num(DecimalValue(Raw(k).v))
             /\ Leaf(result.out, k) = Num(DecimalValue(Raw(k).v))

\* an input without PORT has been validated and carries the default port
C8_Witness ==
  /\ CalledValidateEnvData
  /\ ~IsPresent("PORT")
  /\ result.out.isValid
  /\ Leaf(result.out, "PORT") = Num(3000)

PortKeys == {"PORT", "DATABASE_PORT"}

PositiveKeys == {"SERVER_TIMEOUT", "DATABASE_POOL_SIZE", "DATABASE_CONNECTION_TIMEOUT"}

\* no character of the non-empty string is a digit
NonNumeric(s) == s # <<>> /\ \A i \in 1..Len(s) : s[i] \notin DecimalDigits

\* the raw value s is outside what key k admits
OutOfBounds(k, s) ==
  \/ NonNumeric(s)
  \/ /\ IsDecimalInteger(s)
     /\ k \in PortKeys
     /\ DecimalValue(s) < 1 \/ DecimalValue(s) > 65535
  \/ /\ IsDecimalInteger(s)
     /\ k \in PositiveKeys
     /\ DecimalValue(s) <= 0

\* C9: on an otherwise valid input, PORT and DATABASE_PORT outside 1..65535,
\* SERVER_TIMEOUT, DATABASE_POOL_SIZE and DATABASE_CONNECTION_TIMEOUT given
\* as '0' or a negative integer, and a fully non-numeric string in any of
\* them, each give an invalid result with an error for that field.
C9_NumericBounds ==
  CalledValidateEnvData
  => \A k \in (PortKeys \cup PositiveKeys) \cap DOMAIN processEnv :
       (ValidWithout(k) /\ OutOfBounds(k, Raw(k).v))
       => ~result.out.isValid /\ ErrorFor(result.out, k)

\* a DATABASE_PORT of 70000 on an otherwise valid input has been rejected
C9_Witness ==
  /\ CalledValidateEnvData
  /\ StrEq(Raw("DATABASE_PORT"), R_70000)
  /\ ValidWithout("DATABASE_PORT")
  /\ ~result.out.isValid
  /\ ErrorFor(result.out, "DATABASE_PORT")

EnumKeys == {"NODE_ENV", "DATABASE_TYPE", "JWT_ALGORITHM", "EMAIL_SERVICE"}

\* the fixed set of an enumerated key
EnumOf(k) ==
  CASE k = "NODE_ENV" -> EnvironmentTypes
    [] k = "DATABASE_TYPE" -> DatabaseTypes
    [] k = "JWT_ALGORITHM" -> JWTAlgorithms
    [] k = "EMAIL_SERVICE" -> EmailServices

\* a member of the set of key k that no cross-field rule looks at
PlainMember(k) ==
  CASE k = "NODE_ENV" -> S_development
    [] k = "DATABASE_TYPE" -> S_mongodb
    [] k = "JWT_ALGORITHM" -> S_HS256
    [] k = "EMAIL_SERVICE" -> S_gmail

\* the input supplies DATABASE_URL and is accepted once key k holds a plain
\* member of its set
OtherwiseValid(k) == Truthy(Raw("DATABASE_URL")) /\ ValidWith(k, PlainMember(k))

\* the value of key k is accepted and composed unchanged
AcceptedUnchanged(k) == result.out.isValid /\ Leaf(result.out, k) = Raw(k)

\* the value of key k is rejected with an error naming k
RejectedNaming(k) == ~result.out.isValid /\ ErrorAt(result.out, {<<k>>})

\* C10 as stated: on an otherwise valid input that supplies DATABASE_URL,
\* every member of an enumerated field's set is accepted and composed
\* unchanged, and every non-member gives an invalid result with an error
\* naming the field.
C10_EnumMembership ==
  CalledValidateEnvData
  => \A k \in EnumKeys \cap DOMAIN processEnv :
       OtherwiseValid(k)
       => IF Raw(k).v \in EnumOf(k) THEN AcceptedUnchanged(k) ELSE RejectedNaming(k)

\* EMAIL_HOST is non-empty and EMAIL_PORT is a base-10 port in 1..65535
CustomMailComplete ==
  /\ Truthy(Raw("EMAIL_HOST"))
  /\ Truthy(Raw("EMAIL_PORT"))
  /\ IsDecimalInteger(Raw("EMAIL_PORT").v)
  /\ DecimalValue(Raw("EMAIL_PORT").v) \in 1..65535

\* C10 as amended: as stated, except that the member 'custom' of
\* EMAIL_SERVICE is accepted when a non-empty EMAIL_HOST and an EMAIL_PORT in
\* 1..65535 come with it, and gives an invalid result with the custom-mail
\* error when EMAIL_HOST or EMAIL_PORT is absent or empty.
C10_EnumMembershipAmended ==
  CalledValidateEnvData
  => \A k \in EnumKeys \cap DOMAIN processEnv :
       OtherwiseValid(k)
       => IF Raw(k).v \notin EnumOf(k) THEN RejectedNaming(k)
          ELSE IF k = "EMAIL_SERVICE" /\ Raw(k).v = S_custom
          THEN /\ CustomMailComplete => AcceptedUnchanged(k)
               /\ ~Truthy(Raw("EMAIL_HOST")) \/ ~Truthy(Raw("EMAIL_PORT"))
                  => /\ ~result.out.isValid
                     /\ ErrorWith(result.out, <<"email", "host">>, EmailMessage)
          ELSE AcceptedUnchanged(k)

\* EMAIL_SERVICE = 'custom' with its host and port has been accepted
C10_Witness ==
  /\ CalledValidateEnvData
  /\ StrEq(Raw("EMAIL_SERVICE"), S_custom)
  /\ CustomMailComplete
  /\ AcceptedUnchanged("EMAIL_SERVICE")

OptionalSections == {"cors", "security", "email"}

\* one of the signal fields of the optional section is present and non-empty
\* in the raw input
SectionSignalled(name) ==
  CASE name = "cors" -> Truthy(Raw("CORS_ORIGIN")) \/ Truthy(Raw("CORS_METHODS"))
    [] name = "security" ->
         Truthy(Raw("RATE_LIMIT_WINDOW_MS")) \/ Truthy(Raw("SECURITY_HELMET"))
    [] name = "email" -> Truthy(Raw("EMAIL_SERVICE")) \/ Truthy(Raw("EMAIL_HOST"))

\* C11: in every valid result of validateEnvData, each optional section
\* (cors, security, email) is present if and only if one of its signal
\* fields is present and non-empty in the raw input.
C11_OptionalSectionInclusion ==
  (CalledValidateEnvData /\ result.out.isValid)
  => \A name \in OptionalSections :
       HasSection(result.out, name) <=> SectionSignalled(name)

\* the result carries the incomplete-database error, of the flat rule or of
\* the nested one
IncompleteDatabaseError(out) ==
  \/ ErrorWith(out, <<"DATABASE_URL">>, EnvDatabaseMessage)
  \/ ErrorWith(out, <<"database", "url">>, DatabaseMessage)

\* the raw input names a backend and gives DATABASE_URL, or DATABASE_HOST
\* together with DATABASE_NAME
DatabaseRuleSatisfied ==
  /\ Raw("DATABASE_TYPE").t = "string"
  /\ Raw("DATABASE_TYPE").v \in DatabaseTypes
  /\ Truthy(Raw("DATABASE_URL"))
     \/ (Truthy(Raw("DATABASE_HOST")) /\ Truthy(Raw("DATABASE_NAME")))

\* C12: when DATABASE_TYPE is a backend other than 'mongodb' and the input
\* has no DATABASE_URL and lacks DATABASE_HOST or DATABASE_NAME,
\* validateEnvData returns an invalid result with the incomplete-database
\* error; DATABASE_URL alone, or DATABASE_HOST with DATABASE_NAME, satisfies
\* the rule for every backend.
C12_DatabaseCompleteness ==
  CalledValidateEnvData
  => /\ DatabaseRuleViolated
        => ~result.out.isValid /\ IncompleteDatabaseError(result.out)
     /\ DatabaseRuleSatisfied => ~IncompleteDatabaseError(result.out)

\* the result carries the custom-mail error
IncompleteMailError(out) == ErrorWith(out, <<"email", "host">>, EmailMessage)

\* C13: when EMAIL_SERVICE is 'custom' and EMAIL_HOST or EMAIL_PORT is
\* absent or empty, validateEnvData returns an invalid result with the
\* "Custom email service requires 'host' and 'port'" error; with a non-empty
\* EMAIL_HOST and an in-range EMAIL_PORT the rule passes; for every other
\* EMAIL_SERVICE neither host nor port is required.
C13_MailCompleteness ==
  CalledValidateEnvData
  => /\ MailRuleViolated
        => ~result.out.isValid /\ IncompleteMailError(result.out)
     /\ (StrEq(Raw("EMAIL_SERVICE"), S_custom) /\ CustomMailComplete)
        => ~IncompleteMailError(result.out)
     /\ (Raw("EMAIL_SERVICE").t = "string" /\ Raw("EMAIL_SERVICE").v \in EmailServices \ {S_custom})
        => ~IncompleteMailError(result.out)

R_originMyApp == <<"h", "t", "t", "p", "s", ":", "/", "/", "m", "y", "a", "p", "p", ".", "c", "o", "m">>

R_originAdmin == <<"h", "t", "t", "p", "s", ":", "/", "/", "a", "d", "m", "i", "n", ".", "m", "y", "a", "p", "p", ".", "c", "o", "m">>

R_originB == <<"h", "t", "t", "p", "s", ":", "/", "/", "b", ".", "c", "o", "m">>

\* the number of commas of the string s
CommaCount(s) == Cardinality({i \in 1..Len(s) : s[i] = ","})

\* the string s neither begins nor ends with white space
IsTrimmed(s) == s = <<>> \/ (~IsWhiteSpace(s[1]) /\ ~IsWhiteSpace(s[Len(s)]))

\* C14: in a valid result, a CORS_ORIGIN with commas composes to the ordered
\* sequence of its comma-separated items, each trimmed; 'true' composes to
\* the boolean true and 'false' to the boolean false; any other single value
\* composes to that same string.
C14_CorsOriginCoercion ==
  (CalledValidateEnvData /\ result.out.isValid /\ Truthy(Raw("CORS_ORIGIN")))
  => LET raw == Raw("CORS_ORIGIN").v
         origin == Leaf(result.out, "CORS_ORIGIN")
     IN /\ raw = S_true => origin = Bool(TRUE)
        /\ raw = S_false => origin = Bool(FALSE)
        /\ raw = R_corsOrigins
           => origin = Arr(<<Str(R_originMyApp), Str(R_originAdmin)>>)
        /\ raw = R_corsOriginsSpaced
           => origin = Arr(<<Str(R_corsOne), Str(R_originB)>>)
        /\ Includes(raw, ",")
           => /\ origin.t = "array"
              /\ Len(origin.v) = CommaCount(raw) + 1
              /\ \A i \in 1..Len(origin.v) :
                   origin.v[i].t = "string" /\ IsTrimmed(origin.v[i].v)
        /\ (~Includes(raw, ",") /\ raw \notin {S_true, S_false})
           => origin = Raw("CORS_ORIGIN")

\* a list of origins written with a space after the comma has been composed
\* to its two trimmed items
C14_Witness ==
  /\ CalledValidateEnvData
  /\ result.out.isValid
  /\ StrEq(Raw("CORS_ORIGIN"), R_corsOriginsSpaced)
  /\ Leaf(result.out, "CORS_ORIGIN") = Arr(<<Str(R_corsOne), Str(R_originB)>>)

\* C15: every result of validateEnvData has one of two shapes.  Valid:
\* isValid is true, errors is empty, config is present with its server,
\* database and jwt sections, and envVars is present.  Invalid: isValid is
\* false, errors is non-empty, and config and envVars are both absent.
C15_ResultShape ==
  CalledValidateEnvData =>
    LET out == result.out
    IN \/ /\ out.isValid = TRUE
          /\ out.errors = <<>>
          /\ out.config.t = "object"
          /\ \A name \in {"server", "database", "jwt"} :
                out.config.v[name].t = "object"
          /\ out.envVars.t = "object"
       \/ /\ out.isValid = FALSE
          /\ out.errors # <<>>
          /\ out.config = Undef
          /\ out.envVars = Undef

\* an invalid result whose errors come from the final validation of the
\* composed configuration, after the flat fields parsed
C15_Witness ==
  /\ CalledValidateEnvData
  /\ ~result.out.isValid
  /\ envVarsSchema(processEnv).issues = <<>>
  /\ result.out.errors # <<>>
  /\ result.out.config = Undef

\* C16: the configuration of every valid result satisfies what downstream
\* code relies on: server.port is an integer in 1..65535, server.environment
\* and database.type are members of their sets, the database section has a
\* non-empty url or a non-empty host and databaseName, jwt.secret has at
\* least 32 characters, jwt.algorithm is one of the nine algorithms, and an
\* email section whose service is custom has its host and its port.
C16_DownstreamInterface ==
  (CalledValidateEnvData /\ result.out.isValid) =>
    LET server == Section(result.out, "server").v
        database == Section(result.out, "database").v
        jwt == Section(result.out, "jwt").v
        email == Section(result.out, "email")
    IN /\ server.port.t = "number"
       /\ server.port.v \in PortMin..PortMax
       /\ server.environment.t = "string"
       /\ server.environment.v \in EnvironmentTypes
       /\ database.type.t = "string"
       /\ database.type.v \in DatabaseTypes
       /\ \/ (database.url.t = "string" /\ Len(database.url.v) > 0)
          \/ /\ database.host.t = "string" /\ Len(database.host.v) > 0
             /\ database.databaseName.t = "string"
             /\ Len(database.databaseName.v) > 0
       /\ jwt.secret.t = "string"
       /\ Len(jwt.secret.v) >= JwtSecretMinLength
       /\ jwt.algorithm.t = "string"
       /\ jwt.algorithm.v \in JWTAlgorithms
       /\ (email.t = "object" /\ StrEq(email.v.service, S_custom)) =>
            /\ email.v.host.t = "string" /\ Len(email.v.host.v) > 0
            /\ email.v.port.t = "number"

\* a valid result whose email section has the custom service
C16_Witness ==
  /\ CalledValidateEnvData
  /\ result.out.isValid
  /\ HasSection(result.out, "email")
  /\ StrEq(Section(result.out, "email").v.service, S_custom)

\* ------------------------------------------------------------------------
\* Properties of FastKitConfig and of the startup script
\* ------------------------------------------------------------------------

\* process.env holds a valid configuration
ValidEnvironment == validateEnvData(processEnv).isValid

\* the configuration that validation yields for process.env
LoadedConfig == validateEnvData(processEnv).config

\* the startup script has its validation result, and that result is invalid
StartupInvalid == startup.pc # "start" /\ ~startup.configResult.isValid

\* the process has written the validation error e
Emitted(e) ==
  \E j \in 1..Len(startup.log) :
    startup.log[j].kind = "error" /\ startup.log[j].error = e

\* the process has halted with a non-zero exit status
HaltedNonZero == startup.exitCode.t = "number" /\ startup.exitCode.v # 0

\* C17: startup is fatal on invalid configuration.  Once validateEnv() has
\* returned an Invalid result to the startup script, neither the CLI banner
\* nor tasks.run() is ever reached, and by the time the script has reported
\* on the result every collected error has been written and the process has
\* halted with a non-zero exit status.
C17_StartupFatalOnInvalid ==
  StartupInvalid =>
    /\ startup.pc \notin {"banner", "tasks"}
    /\ startup.pc = "reported" =>
         /\ \A i \in 1..Len(startup.configResult.errors) :
              Emitted(startup.configResult.errors[i])
         /\ HaltedNonZero

\* C18: FastKitConfig.validateEnv() returns isValid = true with an empty
\* error list whenever process.env holds a valid configuration with a
\* DATABASE_URL.
C18_ValidateEnvAcceptsValidEnvironment ==
  (/\ result.call = "validateEnv"
   /\ ValidEnvironment
   /\ Truthy(Raw("DATABASE_URL"))) =>
    (result.out.isValid /\ result.out.errors = <<>>)

\* C19: over a valid environment, getConfig() on a constructed FastKitConfig
\* (new FastKitConfig(path) or FastKitConfig.fromEnv()) returns the
\* configuration loaded from that environment: its server, database and jwt
\* sections are present and are those that validation yields.
C19_GetConfigAfterConstruction ==
  (result.call = "getConfig" /\ ValidEnvironment) =>
    \A name \in {"server", "database", "jwt"} :
      /\ name \in DOMAIN result.out.v
      /\ result.out.v[name] = LoadedConfig.v[name]

\* C20: constructing a FastKitConfig over an invalid environment fails with
\* an 'Invalid configuration' error, and no instance exists for an invalid
\* environment.
C20_ConstructionRejectsInvalidEnvironment ==
  ~ValidEnvironment =>
    /\ instance = Undef
    /\ result.call \in {"new FastKitConfig", "fromEnv"} =>
         (result.out.t = "thrown" /\ result.out.message = "Invalid configuration")

\* ------------------------------------------------------------------------
\* Properties of the custom section, of the two database rules and of
\* repeated validation
\* ------------------------------------------------------------------------

\* the characters of the key k begin with those of prefix
HasPrefix(k, prefix) ==
  /\ Len(KeyChars(k)) >= Len(prefix)
  /\ SubSeq(KeyChars(k), 1, Len(prefix)) = prefix

\* the keys of the raw input that begin with CUSTOM_ or APP_ and are defined
PrefixedKeys ==
  {k \in DOMAIN processEnv :
     /\ HasPrefix(k, S_CUSTOM_) \/ HasPrefix(k, S_APP_)
     /\ processEnv[k] # Undef}

\* C23: config.custom of a valid result holds exactly the raw-input keys
\* that begin with CUSTOM_ or APP_ and have a defined value, each with its
\* raw value unchanged, and is absent when the input has no such key.
C23_CustomSection ==
  (CalledValidateEnvData /\ result.out.isValid) =>
    IF PrefixedKeys = {}
    THEN ~HasSection(result.out, "custom")
    ELSE /\ HasSection(result.out, "custom")
         /\ DOMAIN Section(result.out, "custom").v = PrefixedKeys
         /\ \A k \in PrefixedKeys :
              Section(result.out, "custom").v[k] = processEnv[k]

\* a valid result over an input that has a prefixed key and also a key
\* that is neither prefixed nor known to the schema
C23_Witness ==
  /\ CalledValidateEnvData
  /\ result.out.isValid
  /\ Cardinality(PrefixedKeys) = 2
  /\ \E k \in DOMAIN processEnv : k \notin PrefixedKeys /\ k \notin Range(EnvKeys)

PassesFieldLevel == envVarsSchema(processEnv).issues = <<>>

\* C26: the two database-completeness rules agree.  A raw input that passes
\* envVarsSchema, whose refinement exempts DATABASE_TYPE = 'mongodb', is
\* never rejected by the final validation of the composed configuration
\* with the database-completeness error of databaseConfigSchema.
C26_DatabaseRulesAgree ==
  (CalledValidateEnvData /\ PassesFieldLevel) =>
    ~ErrorWith(result.out, <<"database", "url">>, DatabaseMessage)

\* the raw input gives key k a decimal integer, and does not signal the
\* optional section the key belongs to
SuppliedUnincluded(k, name) ==
  /\ ~SectionSignalled(name)
  /\ Raw(k).t = "string"
  /\ IsDecimalInteger(Raw(k).v)

\* C27: a supplied value that violates the constraint of its field makes
\* the result invalid even when the optional section of the field is not
\* included: EMAIL_PORT outside 1..65535 without EMAIL_SERVICE and
\* EMAIL_HOST, or CORS_MAX_AGE not positive without CORS_ORIGIN and
\* CORS_METHODS, never yields a valid result.
C27_UnincludedSectionFieldsChecked ==
  (/\ CalledValidateEnvData
   /\ \/ /\ SuppliedUnincluded("EMAIL_PORT", "email")
         /\ DecimalValue(Raw("EMAIL_PORT").v) \notin PortMin..PortMax
      \/ /\ SuppliedUnincluded("CORS_MAX_AGE", "cors")
         /\ DecimalValue(Raw("CORS_MAX_AGE").v) <= 0)
  => ~result.out.isValid

\* the last call was validateConfig, and it found its argument valid
ValidatedConfig == result.call = "validateConfig" /\ result.out.isValid

\* C29: validateConfig is idempotent on its own output.  For every
\* configuration that validateConfig finds valid, validating the
\* configuration it returned is valid again and returns an equal
\* configuration: defaults are filled in once and unknown keys dropped once.
C29_ValidateConfigIdempotent ==
  ValidatedConfig =>
    /\ validateConfig(result.out.config).isValid
    /\ validateConfig(result.out.config).errors = <<>>
    /\ validateConfig(result.out.config).config = result.out.config

\* a valid call whose argument lacked server.host and the jwt defaults, or
\* carried unknown keys, all of which the first validation changed
C29_Witness ==
  /\ ValidatedConfig
  /\ \/ /\ "host" \notin DOMAIN result.arg.v.server.v
        /\ result.out.config.v.server.v.host = Str(S_localhost)
        /\ result.out.config.v.jwt.v.expiresIn = Str(S_24h)
        /\ result.out.config.v.jwt.v.algorithm = Str(S_HS256)
     \/ /\ "extra" \in DOMAIN result.arg.v
        /\ "extra" \notin DOMAIN result.out.config.v
        /\ "extra" \notin DOMAIN result.out.config.v.server.v

\* ------------------------------------------------------------------------
\* Properties of updateConfig
\* ------------------------------------------------------------------------

\* the last call was updateConfig
CalledUpdateConfig == result.call = "updateConfig"

\* each section of the partial configuration u satisfies its schema
ValidUpdate(u) ==
  \A name \in DOMAIN u.v : fastKitField(name, u.v[name], <<name>>).issues = <<>>

\* getConfig() on this returns the section name with every value u gives it
ReturnsSectionOf(this, u, name) ==
  LET got == Get(FastKitConfig_getConfig(this).v, name)
  IN /\ got.t = "object"
     /\ \A f \in DOMAIN u.v[name].v : Get(got.v, f) = u.v[name].v[f]

\* C21: in every step that is updateConfig(u) with a valid partial
\* configuration u, getConfig() afterwards returns the section values given
\* in u, and every section that u does not name keeps the value getConfig()
\* returned for it before the step.
C21_UpdateConfigApplies ==
  [][(/\ result'.call = "updateConfig"
      /\ result' # result \/ instance' # instance
      /\ ValidUpdate(result'.arg))
     => /\ \A name \in DOMAIN result'.arg.v :
              ReturnsSectionOf(instance', result'.arg, name)
        /\ \A name \in DOMAIN FastKitConfig_getConfig(instance).v
                          \ DOMAIN result'.arg.v :
              Get(FastKitConfig_getConfig(instance').v, name)
                = FastKitConfig_getConfig(instance).v[name]]_vars

\* C22: updateConfig validates its argument.  An update with a section that
\* violates its schema is rejected with an error, and after any sequence of
\* updateConfig calls the configuration held by the instance satisfies
\* fastKitConfigSchema.
C22_UpdateConfigValidates ==
  CalledUpdateConfig =>
    /\ ~ValidUpdate(result.arg) => result.out.t = "thrown"
    /\ validateConfig(instance.v.config).isValid

\* C28: the state is unchanged on a failed re-validation.  When the
\* re-validation of the environment that updateConfig runs yields an
\* invalid result, getConfig() afterwards still returns a configuration
\* with server, database and jwt sections.
C28_ConfigKeptOnFailedRevalidation ==
  (CalledUpdateConfig /\ ~validateEnvData(EnvConstants.v).isValid) =>
    \A name \in {"server", "database", "jwt"} :
      Get(FastKitConfig_getConfig(instance).v, name).t = "object"

\* ------------------------------------------------------------------------
\* Properties of the scaffolding commands and of the task list
\* ------------------------------------------------------------------------

\* the target of the command of task i exists in the file system fs
TargetExists(i, fs) ==
  CASE i = 1 -> existsSync(fs, FilePath)
    [] i = 2 -> existsSync(fs, envFilePath)
    [] i = 3 -> existsSync(fs, scriptDirPath)
    [] i = 4 -> existsSync(fs, apiDirPath)

\* C25: each scaffolding command is a no-op and not an error when its
\* target already exists.  In every step in which a task runs
\* createFastKitDirectory, createEnvironmentFile, createScriptDirectory or
\* createApiDirectory on a file system where the target of the command
\* exists, no directory and no file content changes (an existing
\* .env.FastKit and an existing script file are never overwritten) and the
\* task does not fail.
C25_ScaffoldingIdempotent ==
  [][(/\ listr.status = "running"
      /\ listr.next \in 1..4
      /\ listr' # listr
      /\ TargetExists(listr.next, fileSystem))
     => /\ fileSystem' = fileSystem
        /\ listr'.status # "failed"]_vars

\* C30: the task 'Create FastKit environment file' is reported as
\* succeeded only if .env.FastKit exists once the task has run; when
\* .env.FastKit.example is missing and no file can be created, the task is
\* not reported as succeeded.
C30_EnvironmentFileTaskReport ==
  \A i \in 1..Len(listr.reports) :
    (/\ listr.reports[i].title = "Create FastKit environment file"
     /\ listr.reports[i].state = "succeeded")
    => existsSync(fileSystem, envFilePath)
====
